---- MODULE Spec2Model ----
(***************************************************************************)
(* Model of the Mermaid flowchart compilers:                               *)
(*   src/src/mermaid_to_clickthrough.py        (click-through tree)        *)
(*   src/src/mermaid_to_hypothesis_filtering.py (hypothesis filtering)     *)
(*   src/src/mermaid_to_html.py                 (nested guide tree)        *)
(*                                                                         *)
(* A string is a sequence of lexemes.  A lexeme is one letter, one         *)
(* whitespace character, or one markup unit (a whole tag, "**", a quote)   *)
(* that the regular expressions of the source treat as a unit.  Two        *)
(* strings are equal exactly when their lexeme sequences are equal.        *)
(* Node identifiers are TLA+ strings; IdChars gives their lexemes.         *)
(***************************************************************************)
EXTENDS Integers, Sequences, FiniteSets, TLC

(***************************************************************************)
(* Lexemes                                                                 *)
(***************************************************************************)
WS == " "
BrTags == {"<br/>", "<br>"}
ImgTags == {"<img src='p.png'>", "<img src=\"e.png\">", "<img alt='x'>"}
OtherTags == {"<h1>", "</h1>", "<p>", "</p>", "<strong>", "</strong>"}
Tags == BrTags \cup ImgTags \cup OtherTags
BOLD == "**"
ESCQUOTE == "\\\""
QUOTE == "\""

\* Python truthiness of a string, and `a or b` on strings.
Truthy(s) == s # <<>>
Or(a, b) == IF Truthy(a) THEN a ELSE b

\* str.strip(): whitespace removed at both ends.
RECURSIVE LStrip(_)
LStrip(s) == IF s # <<>> /\ Head(s) = WS THEN LStrip(Tail(s)) ELSE s
RECURSIVE RStrip(_)
RStrip(s) ==
    IF s # <<>> /\ s[Len(s)] = WS THEN RStrip(SubSeq(s, 1, Len(s) - 1)) ELSE s
Strip(s) == RStrip(LStrip(s))

\* The least index j >= from with s[j] = tok, or 0 when there is none.
IndexFrom(s, tok, from) ==
    IF \E j \in from..Len(s) : s[j] = tok
    THEN CHOOSE j \in from..Len(s) :
             s[j] = tok /\ \A k \in from..(j - 1) : s[k] # tok
    ELSE 0

\* IMG_TAG_RE.search(html) with `or ""` applied by every caller: the first
\* image tag, or the empty string.
extract_first_img_tag(html) ==
    IF \E i \in 1..Len(html) : html[i] \in ImgTags
    THEN <<html[CHOOSE i \in 1..Len(html) :
                html[i] \in ImgTags /\ \A k \in 1..(i - 1) : html[k] \notin ImgTags]>>
    ELSE <<>>

\* SRC_RE.search(img_tag).group(2).strip(), or "" without a src attribute.
extract_img_src(img_tag) ==
    IF img_tag = <<"<img src='p.png'>">> THEN <<"p", ".", "p", "n", "g">>
    ELSE IF img_tag = <<"<img src=\"e.png\">">> THEN <<"e", ".", "p", "n", "g">>
    ELSE <<>>

\* re.sub(IMG, "", html).strip()
strip_img_tags(html) == Strip(SelectSeq(html, LAMBDA t : t \notin ImgTags))

\* re.sub(r"\*\*(.+?)\*\*", r"<strong>\1</strong>", txt): leftmost opening
\* "**", the nearest closing "**" with at least one lexeme between them.
RECURSIVE BoldSub(_)
BoldSub(s) ==
    LET i == IndexFrom(s, BOLD, 1)
        j == IF i = 0 THEN 0 ELSE IndexFrom(s, BOLD, i + 2)
    IN  IF j = 0 THEN s
        ELSE SubSeq(s, 1, i - 1) \o <<"<strong>">> \o SubSeq(s, i + 1, j - 1)
             \o <<"</strong>">> \o BoldSub(SubSeq(s, j + 1, Len(s)))

mmd_label_to_html(raw) ==
    LET txt == Strip(raw)
        unesc == [k \in 1..Len(txt) |-> IF txt[k] = ESCQUOTE THEN QUOTE ELSE txt[k]]
    IN  BoldSub(unesc)

\* re.sub(r"\s+", " ", t).strip()
RECURSIVE CollapseWS(_)
CollapseWS(s) ==
    IF s = <<>> THEN <<>>
    ELSE IF Head(s) = WS /\ Len(s) > 1 /\ s[2] = WS THEN CollapseWS(Tail(s))
    ELSE <<Head(s)>> \o CollapseWS(Tail(s))

strip_html_for_plain(text) ==
    LET t1 == [k \in 1..Len(text) |-> IF text[k] \in BrTags THEN WS ELSE text[k]]
        t2 == SelectSeq(t1, LAMBDA t : t \notin Tags)
    IN  Strip(CollapseWS(t2))

\* The lexemes of each identifier the input text may use.
Nodes == {"A", "B", "C_x"}
IdChars(nid) ==
    IF nid = "A" THEN <<"A">>
    ELSE IF nid = "B" THEN <<"B">>
    ELSE IF nid = "D" THEN <<"D">>
    ELSE <<"C", "_", "x">>

fallback_label(node_id) ==
    LET s == IdChars(node_id)
    IN  [k \in 1..Len(s) |-> IF s[k] = "_" THEN WS ELSE s[k]]

\* H1_RE.search(h): the inner content of the first <h1>...</h1>, and whether
\* there is one.
H1Match(h) ==
    LET i == IndexFrom(h, "<h1>", 1)
        j == IF i = 0 THEN 0 ELSE IndexFrom(h, "</h1>", i + 1)
    IN  [found |-> j # 0, inner |-> IF j = 0 THEN <<>> ELSE SubSeq(h, i + 1, j - 1)]

\* "".join(f"<p>{p.strip()}</p>" for p in P_RE.findall(h))
RECURSIVE PJoin(_)
PJoin(h) ==
    LET i == IndexFrom(h, "<p>", 1)
        j == IF i = 0 THEN 0 ELSE IndexFrom(h, "</p>", i + 1)
    IN  IF j = 0 THEN <<>>
        ELSE <<"<p>">> \o Strip(SubSeq(h, i + 1, j - 1)) \o <<"</p>">>
             \o PJoin(SubSeq(h, j + 1, Len(h)))

\* The operators below are parse_edge_label, one per block of its body; each
\* local of the source is a parameter of the operator that uses it.
EdgeImgSrc(edge_img_tag) ==
    IF Truthy(edge_img_tag) THEN extract_img_src(edge_img_tag) ELSE <<>>

\* The early return without the image of the label: C22 tells the two apart.
PlainOnlyParts_NoImage(plain, edge_img_tag) ==
    [titleHtml |-> plain, contextHtml |-> <<>>, plainLabel |-> plain,
     edgeImageTag |-> <<>>, edgeImageSrc |-> <<>>]

\* if not html_wo_img: return {...}
PlainOnlyParts(plain, edge_img_tag) ==
    [titleHtml |-> plain, contextHtml |-> <<>>, plainLabel |-> plain,
     edgeImageTag |-> edge_img_tag, edgeImageSrc |-> EdgeImgSrc(edge_img_tag)]

TitleHtml(html_wo_img, h1_match) ==
    IF h1_match.found THEN Strip(h1_match.inner) ELSE Strip(html_wo_img)

\* The plain label without the step through the whole markup: C23 tells the
\* two apart.
RichParts_TitleOnly(html_wo_img, title_html, edge_img_tag, fallback_text) ==
    [titleHtml |-> title_html,
     contextHtml |-> PJoin(html_wo_img),
     plainLabel |-> Or(strip_html_for_plain(title_html), fallback_text),
     edgeImageTag |-> edge_img_tag, edgeImageSrc |-> EdgeImgSrc(edge_img_tag)]

RichParts(html_wo_img, title_html, edge_img_tag, fallback_text) ==
    [titleHtml |-> title_html,
     contextHtml |-> PJoin(html_wo_img),
     plainLabel |-> Or(strip_html_for_plain(title_html),
                       Or(strip_html_for_plain(html_wo_img), fallback_text)),
     edgeImageTag |-> edge_img_tag, edgeImageSrc |-> EdgeImgSrc(edge_img_tag)]

PartsOf(html_wo_img, edge_img_tag, fallback_text) ==
    IF ~Truthy(html_wo_img)
    THEN PlainOnlyParts(Or(strip_html_for_plain(fallback_text), fallback_text),
                        edge_img_tag)
    ELSE RichParts(html_wo_img, TitleHtml(html_wo_img, H1Match(html_wo_img)),
                   edge_img_tag, fallback_text)

ParseHtml(html, fallback_text) ==
    PartsOf(strip_img_tags(html), extract_first_img_tag(html), fallback_text)

parse_edge_label(edge_html, fallback_text) ==
    ParseHtml(mmd_label_to_html(edge_html), fallback_text)

(***************************************************************************)
(* Graph (class Graph).  Dicts are functions whose DOMAIN is the key set.  *)
(* Optional[x] is a sequence of length at most one: <<>> is None.          *)
(***************************************************************************)
EmptyGraph ==
    [node_html |-> <<>>, children |-> <<>>, edge_label |-> <<>>,
     indegree |-> <<>>, nodes_in_order |-> <<>>]

InSeq(x, s) == \E k \in 1..Len(s) : s[k] = x

\* dict.get(key, default)
Get(d, key, default) == IF key \in DOMAIN d THEN d[key] ELSE default

\* d[key] = val
Put(d, key, val) == [k \in DOMAIN d \cup {key} |-> IF k = key THEN val ELSE d[k]]

\* ensure_node that sets the fallback label also when the node exists: C14
\* tells the two apart.
ensure_node_Relabel(G, nid) ==
    [G EXCEPT
       !.children = IF nid \notin DOMAIN @ THEN Put(@, nid, <<>>) ELSE @,
       !.indegree = IF nid \notin DOMAIN @ THEN Put(@, nid, 0) ELSE @,
       !.node_html = Put(@, nid, fallback_label(nid)),
       !.nodes_in_order = IF ~InSeq(nid, @) THEN Append(@, nid) ELSE @]

ensure_node(G, nid) ==
    [G EXCEPT
       !.children = IF nid \notin DOMAIN @ THEN Put(@, nid, <<>>) ELSE @,
       !.indegree = IF nid \notin DOMAIN @ THEN Put(@, nid, 0) ELSE @,
       !.node_html = IF nid \notin DOMAIN @ THEN Put(@, nid, fallback_label(nid)) ELSE @,
       !.nodes_in_order = IF ~InSeq(nid, @) THEN Append(@, nid) ELSE @]

\* add_node_label that starts the node afresh, as if it were new: C15 tells
\* the two apart.
add_node_label_Reset(G, nid, raw_label) ==
    [ensure_node(G, nid) EXCEPT !.node_html = Put(@, nid, mmd_label_to_html(raw_label)),
                                !.children = Put(@, nid, <<>>)]

add_node_label(G, nid, raw_label) ==
    LET G1 == ensure_node(G, nid)
    IN  [G1 EXCEPT !.node_html = Put(@, nid, mmd_label_to_html(raw_label))]

\* lbl is <<>> (None) or <<text>>.
\* add_edge that counts a repeated edge once: C20 tells the two apart.
add_edge_Once(G, src, dst, lbl) ==
    LET G1 == ensure_node(ensure_node(G, src), dst)
        G2 == [G1 EXCEPT !.children[src] = Append(@, dst),
                         !.indegree[dst] = IF InSeq(dst, G1.children[src]) THEN @ ELSE @ + 1]
        stripped == Strip(lbl[1])
        cleaned == IF Len(stripped) >= 2 /\ stripped[1] = QUOTE
                      /\ stripped[Len(stripped)] = QUOTE
                   THEN SubSeq(stripped, 2, Len(stripped) - 1)
                   ELSE stripped
    IN  IF lbl # <<>>
        THEN [G2 EXCEPT !.edge_label = Put(@, <<src, dst>>, mmd_label_to_html(cleaned))]
        ELSE G2

add_edge(G, src, dst, lbl) ==
    LET G1 == ensure_node(ensure_node(G, src), dst)
        G2 == [G1 EXCEPT !.children[src] = Append(@, dst),
                         !.indegree[dst] = @ + 1]
        stripped == Strip(lbl[1])
        cleaned == IF Len(stripped) >= 2 /\ stripped[1] = QUOTE
                      /\ stripped[Len(stripped)] = QUOTE
                   THEN SubSeq(stripped, 2, Len(stripped) - 1)
                   ELSE stripped
    IN  IF lbl # <<>>
        THEN [G2 EXCEPT !.edge_label = Put(@, <<src, dst>>, mmd_label_to_html(cleaned))]
        ELSE G2

(***************************************************************************)
(* detect_cycle                                                            *)
(***************************************************************************)
WHITE == 0
GRAY == 1
BLACK == 2
NONE == ""

Reverse(s) == [k \in 1..Len(s) |-> s[Len(s) + 1 - k]]

\* while cur is not None and cur != v: cycle.append(cur); cur = parent[cur]
RECURSIVE WalkParents(_, _, _)
WalkParents(parent, cur, v) ==
    IF cur = NONE \/ cur = v THEN <<>>
    ELSE <<cur>> \o WalkParents(parent, parent[cur], v)

\* CyclePath without the closing cycle.append(v): C1 tells the two apart.
CyclePath_Open(parent, u, v) == Reverse(<<v>> \o WalkParents(parent, u, v))

\* The parent walk as collected, without the reversal: C29 tells the two
\* apart.
CyclePath_Backwards(parent, u, v) == <<v>> \o WalkParents(parent, u, v) \o <<v>>

\* cycle = [v]; ...; cycle.append(v); cycle.reverse()
CyclePath(parent, u, v) == Reverse(<<v>> \o WalkParents(parent, u, v) \o <<v>>)

RECURSIVE dfs(_, _, _)
RECURSIVE dfsKids(_, _, _, _)
\* st = [color, parent, found]; found is <<>> (None) or <<cycle>>.
dfs(G, u, st) == dfsKids(G, u, 1, [st EXCEPT !.color[u] = GRAY])

dfsKids(G, u, i, st) ==
    LET kids == Get(G.children, u, <<>>)
    IN  IF i > Len(kids) THEN [st EXCEPT !.color[u] = BLACK]
        ELSE LET v == kids[i]
             IN  IF st.color[v] = WHITE
                 THEN LET r == dfs(G, v, [st EXCEPT !.parent[v] = u])
                      IN  IF r.found # <<>> /\ r.found[1] # <<>> THEN r
                          ELSE dfsKids(G, u, i + 1, r)
                 ELSE IF st.color[v] = GRAY
                 THEN [st EXCEPT !.found = <<CyclePath(st.parent, u, v)>>]
                 ELSE dfsKids(G, u, i + 1, st)

RECURSIVE DetectFrom(_, _, _)
DetectFrom(G, i, st) ==
    IF i > Len(G.nodes_in_order) THEN <<>>
    ELSE LET n == G.nodes_in_order[i]
         IN  IF st.color[n] = WHITE
             THEN LET r == dfs(G, n, st)
                  IN  IF r.found # <<>> /\ r.found[1] # <<>> THEN r.found
                      ELSE DetectFrom(G, i + 1, [r EXCEPT !.found = <<>>])
             ELSE DetectFrom(G, i + 1, st)

detect_cycle(G) ==
    DetectFrom(G, 1, [color |-> [n \in DOMAIN G.children |-> WHITE],
                      parent |-> [n \in DOMAIN G.children |-> NONE],
                      found |-> <<>>])

\* top_nodes that stops at the first in-degree-zero node: C11 tells the two
\* apart.
top_nodes_First(G) ==
    SubSeq(SelectSeq(G.nodes_in_order, LAMBDA n : Get(G.indegree, n, 0) = 0), 1, 1)

top_nodes(G) == SelectSeq(G.nodes_in_order, LAMBDA n : Get(G.indegree, n, 0) = 0)

(***************************************************************************)
(* Tree compiler (mermaid_to_clickthrough.py)                              *)
(***************************************************************************)
option_label(G, src, dst) ==
    LET edge_html == Get(G.edge_label, <<src, dst>>, <<>>)
        child_html == Get(G.node_html, dst, fallback_label(dst))
    IN  IF Truthy(edge_html)
        THEN parse_edge_label(edge_html, fallback_label(dst)).plainLabel
        ELSE Or(strip_html_for_plain(child_html), fallback_label(dst))

NodeImgSrc(node_img_tag) ==
    IF Truthy(node_img_tag) THEN extract_img_src(node_img_tag) ELSE <<>>

\* MakeOption without the `or opt_label` of the label field: C7 tells the two
\* apart.
MakeOption_NoFallback(edge_parts, opt_label, child, node_img_tag) ==
    [label |-> edge_parts.plainLabel,
     titleHtml |-> Or(edge_parts.titleHtml, opt_label),
     contextHtml |-> Or(edge_parts.contextHtml, <<>>),
     nextNodeId |-> child,
     imageTag |-> Or(edge_parts.edgeImageTag, node_img_tag),
     imageSrc |-> Or(edge_parts.edgeImageSrc, NodeImgSrc(node_img_tag))]

\* opt = {...}: the fields set before the option is known to be terminal or not.
MakeOption(edge_parts, opt_label, child, node_img_tag) ==
    [label |-> Or(edge_parts.plainLabel, opt_label),
     titleHtml |-> Or(edge_parts.titleHtml, opt_label),
     contextHtml |-> Or(edge_parts.contextHtml, <<>>),
     nextNodeId |-> child,
     imageTag |-> Or(edge_parts.edgeImageTag, node_img_tag),
     imageSrc |-> Or(edge_parts.edgeImageSrc, NodeImgSrc(node_img_tag))]

OptionFor(G, node_id, child, child_html) ==
    MakeOption(parse_edge_label(Get(G.edge_label, <<node_id, child>>, <<>>),
                                strip_html_for_plain(child_html)),
               option_label(G, node_id, child),
               child,
               extract_first_img_tag(child_html))

OptionBase(G, node_id, child) ==
    OptionFor(G, node_id, child, Get(G.node_html, child, fallback_label(child)))

\* WithNext that also fills in the result fields: C3 tells the two apart.
WithNext_KeepResult(opt, node) ==
    [k \in DOMAIN opt \cup {"next", "resultHtml", "resultText"} |->
        IF k = "next" THEN node
        ELSE IF k \in {"resultHtml", "resultText"} THEN <<>> ELSE opt[k]]

\* opt["next"] = ...
WithNext(opt, node) ==
    [k \in DOMAIN opt \cup {"next"} |-> IF k = "next" THEN node ELSE opt[k]]

\* opt["resultHtml"] = ...; opt["resultText"] = ...
WithResult(opt, html, text) ==
    [k \in DOMAIN opt \cup {"resultHtml", "resultText"} |->
        IF k = "resultHtml" THEN html ELSE IF k = "resultText" THEN text ELSE opt[k]]

TerminalOption(opt, child_html) ==
    WithResult(opt, child_html, strip_html_for_plain(child_html))

QuestionNode(node_id, question_html, options) ==
    [nodeId |-> node_id,
     questionHtml |-> question_html,
     questionText |-> strip_html_for_plain(question_html),
     options |-> options]

RECURSIVE build_node(_, _)
RECURSIVE BuildOptions(_, _, _)
\* for child in kids: ...; node_obj["options"].append(opt)
BuildOptions(G, node_id, kids) ==
    [k \in 1..Len(kids) |->
        IF Get(G.children, kids[k], <<>>) # <<>>
        THEN WithNext(OptionBase(G, node_id, kids[k]), build_node(G, kids[k]))
        ELSE TerminalOption(OptionBase(G, node_id, kids[k]),
                            Get(G.node_html, kids[k], fallback_label(kids[k])))]

build_node(G, node_id) ==
    QuestionNode(node_id,
                 Get(G.node_html, node_id, fallback_label(node_id)),
                 BuildOptions(G, node_id, Get(G.children, node_id, <<>>)))

SYNTHETIC_ID == "__synthetic_start__"
START_QUESTION ==
    <<"W", "h", "e", "r", "e", " ", "d", "o", " ", "y", "o", "u", " ", "w", "a", "n", "t",
      " ", "t", "o", " ", "s", "t", "a", "r", "t", "?">>

SyntheticFields(r, label_plain, r_img_tag, next) ==
    [label |-> label_plain, titleHtml |-> label_plain, contextHtml |-> <<>>,
     nextNodeId |-> r, imageTag |-> r_img_tag, imageSrc |-> NodeImgSrc(r_img_tag),
     next |-> next]

SyntheticFor(G, r, r_html) ==
    SyntheticFields(r, Or(strip_html_for_plain(r_html), fallback_label(r)),
                    extract_first_img_tag(r_html), build_node(G, r))

SyntheticOption(G, r) == SyntheticFor(G, r, Get(G.node_html, r, fallback_label(r)))

\* A root test that only notices the graph without nodes: C17 tells the two
\* apart.
BuildRaises_Empty(G) == G.nodes_in_order = <<>>

\* build_tree raises ValueError when there is no root (BuildRaises); otherwise
\* it returns this tree.
BuildRaises(G) == top_nodes(G) = <<>>

\* RootsTree that compiles the first root only: C6 tells the two apart.
RootsTree_FirstOnly(G, roots) == build_node(G, roots[1])

RootsTree(G, roots) ==
    IF Len(roots) = 1 THEN build_node(G, roots[1])
    ELSE [nodeId |-> SYNTHETIC_ID,
          questionHtml |-> START_QUESTION,
          questionText |-> START_QUESTION,
          options |-> [k \in 1..Len(roots) |-> SyntheticOption(G, roots[k])]]

build_tree(G) == RootsTree(G, top_nodes(G))

(***************************************************************************)
(* Hypothesis-filtering model (mermaid_to_hypothesis_filtering.py)         *)
(***************************************************************************)
TO == "__TO__"

\* Option(option_id=..., ...)
OptionRecord(nid, child, edge_parts, child_plain, node_img_tag) ==
    [option_id |-> nid \o TO \o child,
     src |-> nid,
     dst |-> child,
     title_html |-> Or(edge_parts.titleHtml, Or(child_plain, fallback_label(child))),
     context_html |-> Or(edge_parts.contextHtml, <<>>),
     plain_label |-> Or(edge_parts.plainLabel, Or(child_plain, fallback_label(child))),
     image_src |-> Or(Or(edge_parts.edgeImageSrc, <<>>), NodeImgSrc(node_img_tag))]

BuildOptionFor(G, nid, child, child_html) ==
    OptionRecord(nid, child,
                 parse_edge_label(Get(G.edge_label, <<nid, child>>, <<>>),
                                  strip_html_for_plain(child_html)),
                 strip_html_for_plain(child_html),
                 extract_first_img_tag(child_html))

BuildOption(G, nid, child) ==
    BuildOptionFor(G, nid, child, Get(G.node_html, child, fallback_label(child)))

Question(nid, q_html, options) ==
    [node_id |-> nid,
     question_html |-> q_html,
     question_text |-> Or(strip_html_for_plain(q_html), fallback_label(nid)),
     options |-> options]

QuestionFor(G, nid, kids) ==
    Question(nid, Get(G.node_html, nid, fallback_label(nid)),
             [k \in 1..Len(kids) |-> BuildOption(G, nid, kids[k])])

SeqSet(s) == {s[k] : k \in 1..Len(s)}

\* The dict nid -> Question; its keys are the nodes with children.
build_questions(G) ==
    [nid \in {n \in SeqSet(G.nodes_in_order) : Get(G.children, n, <<>>) # <<>>} |->
        QuestionFor(G, nid, Get(G.children, nid, <<>>))]

\* find_leaves that returns every node: C13 tells the two apart.
find_leaves_All(G) == G.nodes_in_order

find_leaves(G) == SelectSeq(G.nodes_in_order, LAMBDA n : Get(G.children, n, <<>>) = <<>>)

UNSEEN == 1000000000

\* The walk that keeps the depth at which a node was first met: C19 tells
\* the two apart.
RECURSIVE DepthLoop_FirstMet(_, _, _)
DepthLoop_FirstMet(G, stack, depth) ==
    IF stack = <<>> THEN depth
    ELSE LET top == stack[Len(stack)]
             rest == SubSeq(stack, 1, Len(stack) - 1)
             nid == top[1]
             d == top[2]
             kids == Get(G.children, nid, <<>>)
         IN  IF Get(depth, nid, UNSEEN) # UNSEEN THEN DepthLoop_FirstMet(G, rest, depth)
             ELSE DepthLoop_FirstMet(G, rest \o [k \in 1..Len(kids) |-> <<kids[k], d + 1>>],
                                     Put(depth, nid, d))

\* while stack: nid, d = stack.pop(); ...
RECURSIVE DepthLoop(_, _, _)
DepthLoop(G, stack, depth) ==
    IF stack = <<>> THEN depth
    ELSE LET top == stack[Len(stack)]
             rest == SubSeq(stack, 1, Len(stack) - 1)
             nid == top[1]
             d == top[2]
             kids == Get(G.children, nid, <<>>)
         IN  IF d >= Get(depth, nid, UNSEEN) THEN DepthLoop(G, rest, depth)
             ELSE DepthLoop(G, rest \o [k \in 1..Len(kids) |-> <<kids[k], d + 1>>],
                            Put(depth, nid, d))

\* Fill anything unreachable with 0.
FillUnseen(depth, keys) ==
    [n \in DOMAIN depth |-> IF n \in keys /\ depth[n] = UNSEEN THEN 0 ELSE depth[n]]

compute_depths(G, roots) ==
    FillUnseen(DepthLoop(G, [k \in 1..Len(roots) |-> <<roots[k], 0>>],
                         [n \in SeqSet(G.nodes_in_order) |-> UNSEEN]),
               SeqSet(G.nodes_in_order))

\* One `for n in g.nodes_in_order[::-1]` pass, from position i down to 1.
KidsUnion(leaf_set, kids) == UNION {Get(leaf_set, kids[k], {}) : k \in 1..Len(kids)}

\* A loop body that stores the union without setting changed: C25 tells the
\* two apart.
LeafStep_Quiet(n, kids, union, r) ==
    IF kids = <<>> THEN r
    ELSE IF union # {} /\ union # r.leaf_set[n]
    THEN [leaf_set |-> [r.leaf_set EXCEPT ![n] = union], changed |-> r.changed]
    ELSE r

\* The body of the for loop for node n with the union of its children's sets.
LeafStep(n, kids, union, r) ==
    IF kids = <<>> THEN r
    ELSE IF union # {} /\ union # r.leaf_set[n]
    THEN [leaf_set |-> [r.leaf_set EXCEPT ![n] = union], changed |-> TRUE]
    ELSE r

RECURSIVE LeafPass(_, _, _)
\* r = [leaf_set, changed]
LeafPass(G, i, r) ==
    IF i = 0 THEN r
    ELSE LeafPass(G, i - 1,
                  LeafStep(G.nodes_in_order[i],
                           Get(G.children, G.nodes_in_order[i], <<>>),
                           KidsUnion(r.leaf_set, Get(G.children, G.nodes_in_order[i], <<>>)),
                           r))

RECURSIVE LeafLoop(_, _, _)
RECURSIVE LeafAgain(_, _, _)
\* while changed: changed = False; for n in ...; passes counts the loop bodies run.
LeafLoop(G, leaf_set, passes) ==
    LeafAgain(G, LeafPass(G, Len(G.nodes_in_order), [leaf_set |-> leaf_set, changed |-> FALSE]),
              passes + 1)

\* LeafAgain that stops after the first pass: C8 tells the two apart.
LeafAgain_Once(G, r, passes) == [leaf_set |-> r.leaf_set, passes |-> passes]

LeafAgain(G, r, passes) ==
    IF r.changed THEN LeafLoop(G, r.leaf_set, passes)
    ELSE [leaf_set |-> r.leaf_set, passes |-> passes]

LeafSetRun(G, leaves) ==
    LeafLoop(G, [n \in SeqSet(G.nodes_in_order) |-> IF InSeq(n, leaves) THEN {n} ELSE {}], 0)

compute_leaf_sets(G, leaves) == LeafSetRun(G, leaves).leaf_set

\* Python's str ordering (code points, lexicographic) on identifiers.
CharCode(c) ==
    IF c = "A" THEN 65 ELSE IF c = "B" THEN 66 ELSE IF c = "C" THEN 67
    ELSE IF c = "D" THEN 68 ELSE IF c = "_" THEN 95
    ELSE IF c = "a" THEN 97 ELSE 120

RECURSIVE SeqLess(_, _)
SeqLess(a, b) ==
    IF b = <<>> THEN FALSE
    ELSE IF a = <<>> THEN TRUE
    ELSE IF CharCode(Head(a)) # CharCode(Head(b)) THEN CharCode(Head(a)) < CharCode(Head(b))
    ELSE SeqLess(Tail(a), Tail(b))

StrLess(x, y) == SeqLess(IdChars(x), IdChars(y))

\* sorted in descending order: C10 tells the two apart.
RECURSIVE sorted_Desc(_)
sorted_Desc(S) ==
    IF S = {} THEN <<>>
    ELSE LET m == CHOOSE x \in S : \A y \in S \ {x} : StrLess(y, x)
         IN  <<m>> \o sorted_Desc(S \ {m})

\* sorted(list(S)) for a set of identifiers
RECURSIVE sorted(_)
sorted(S) ==
    IF S = {} THEN <<>>
    ELSE LET m == CHOOSE x \in S : \A y \in S \ {x} : StrLess(x, y)
         IN  <<m>> \o sorted(S \ {m})

\* The (optionId, dst) pairs in the order make_model visits them.
RECURSIVE Flatten(_)
Flatten(ss) == IF ss = <<>> THEN <<>> ELSE Head(ss) \o Flatten(Tail(ss))

\* PutAll that indexes the first option only: C9 tells the two apart.
PutAll_FirstOnly(d, pairs, leaf_sets) ==
    IF pairs = <<>> THEN d
    ELSE Put(d, pairs[1].option_id, sorted(Get(leaf_sets, pairs[1].dst, {})))

RECURSIVE PutAll(_, _, _)
PutAll(d, pairs, leaf_sets) ==
    IF pairs = <<>> THEN d
    ELSE PutAll(Put(d, pairs[1].option_id, sorted(Get(leaf_sets, pairs[1].dst, {}))),
                Tail(pairs), leaf_sets)

OptObj(opt) ==
    [optionId |-> opt.option_id, dstNodeId |-> opt.dst,
     titleHtml |-> opt.title_html, contextHtml |-> opt.context_html,
     plainLabel |-> opt.plain_label, imageSrc |-> opt.image_src]

QObj(q) ==
    [nodeId |-> q.node_id, questionHtml |-> q.question_html,
     questionText |-> q.question_text,
     options |-> [k \in 1..Len(q.options) |-> OptObj(q.options[k])]]

LeafObjFor(lf, lf_html, depths) ==
    [leafId |-> lf, leafHtml |-> lf_html,
     leafText |-> Or(strip_html_for_plain(lf_html), fallback_label(lf)),
     depth |-> Get(depths, lf, 0)]

LeafObj(G, lf, depths) == LeafObjFor(lf, Get(G.node_html, lf, fallback_label(lf)), depths)

\* all_candidates, with the fallback `if not all_candidates`
AllCandidates(root_union, leaves) == IF root_union = {} THEN SeqSet(leaves) ELSE root_union

ModelOf(G, roots, questions, question_ids, leaves, depths, leaf_sets) ==
    [roots |-> roots,
     questions |-> [k \in 1..Len(question_ids) |-> QObj(questions[question_ids[k]])],
     leaves |-> [k \in 1..Len(leaves) |-> LeafObj(G, leaves[k], depths)],
     optionToLeafIds |->
         PutAll(<<>>,
                Flatten([k \in 1..Len(question_ids) |-> questions[question_ids[k]].options]),
                leaf_sets),
     initialCandidates |->
         sorted(AllCandidates(UNION {Get(leaf_sets, roots[k], {}) : k \in 1..Len(roots)},
                              leaves))]

WithQuestions(G, roots, questions, leaves) ==
    ModelOf(G, roots, questions,
            SelectSeq(G.nodes_in_order, LAMBDA nid : nid \in DOMAIN questions),
            leaves, compute_depths(G, roots), compute_leaf_sets(G, leaves))

\* make_model raises ValueError when there is no root (BuildRaises).
make_model(G) == WithQuestions(G, top_nodes(G), build_questions(G), find_leaves(G))

(***************************************************************************)
(* The hypothesis-filtering page: the script of make_html, run on MODEL.   *)
(***************************************************************************)
\* function intersect(a, b): a.filter(x => setB.has(x))
intersect(a, b) == SelectSeq(a, LAMBDA x : InSeq(x, b))

\* JavaScript's null, for activeQuestionId when MODEL.questions is empty.
NULL == "null"
CONFLICT_MSG == "That choice conflicts with earlier answers."

\* The answers object {nodeId: optionId} as its entries in insertion order,
\* which is the order Object.entries walks them.
AnswerHas(answers, nodeId) == \E k \in 1..Len(answers) : answers[k][1] = nodeId

\* { ...answers, [nodeId]: optionId }: an existing key keeps its position.
AnswerSet(answers, nodeId, optionId) ==
    IF AnswerHas(answers, nodeId)
    THEN [k \in 1..Len(answers) |->
             IF answers[k][1] = nodeId THEN <<nodeId, optionId>> ELSE answers[k]]
    ELSE Append(answers, <<nodeId, optionId>>)

\* delete next[nodeId]
AnswerDelete(answers, nodeId) == SelectSeq(answers, LAMBDA e : e[1] # nodeId)

\* for (const [nodeId, optionId] of Object.entries(answers)) cur = intersect(cur, allowed)
RECURSIVE FilterBy(_, _, _)
FilterBy(m, cur, entries) ==
    IF entries = <<>> THEN cur
    ELSE FilterBy(m, intersect(cur, Get(m.optionToLeafIds, entries[1][2], <<>>)),
                  Tail(entries))

\* const candidates = useMemo(...)
candidates(m, answers) == FilterBy(m, m.initialCandidates, answers)

\* questionMeta: isRelevant = union.length > 0
isRelevant(m, cands, q) ==
    \E k \in 1..Len(q.options) :
        intersect(cands, Get(m.optionToLeafIds, q.options[k].optionId, <<>>)) # <<>>

QuestionById(m, nodeId) ==
    SelectSeq(m.questions, LAMBDA q : q.nodeId = nodeId)

RelevantQuestions(m, cands) == SelectSeq(m.questions, LAMBDA q : isRelevant(m, cands, q))

\* useEffect: when the active question is not relevant, jump to the first
\* relevant one, if there is one.
JumpTo(s, active, relevant) ==
    IF s.activeQuestionId = NULL THEN s
    ELSE IF active # <<>> /\ InSeq(active[1], relevant) THEN s
    ELSE IF relevant # <<>> THEN [s EXCEPT !.activeQuestionId = relevant[1].nodeId]
    ELSE s

AutoJump(m, s) ==
    JumpTo(s, QuestionById(m, s.activeQuestionId),
           RelevantQuestions(m, candidates(m, s.answers)))

\* MODEL.questions[0]?.nodeId || null
FirstQuestionId(m) == IF m.questions = <<>> THEN NULL ELSE m.questions[1].nodeId

\* The useState initial values.
InitialState(m) == [activeQuestionId |-> FirstQuestionId(m), answers |-> <<>>, errorMsg |-> ""]

\* String.prototype.localeCompare with the default collation: the strings
\* are first compared letter by letter without regard to case (a space
\* before every letter, a prefix before its extensions); strings equal up to
\* case are then ordered by the first letter whose case differs, the
\* lower-case one first.
PrimaryWeight(c) ==
    IF c = WS THEN 1
    ELSE IF c = "a" \/ c = "A" THEN 10
    ELSE IF c = "B" THEN 11
    ELSE IF c = "C" THEN 12
    ELSE IF c = "D" THEN 13
    ELSE IF c = "P" THEN 14
    ELSE IF c = "x" THEN 15
    ELSE 16

IsUpperCase(c) == c \in {"A", "B", "C", "D", "P"}

RECURSIVE ComparePrimary(_, _)
ComparePrimary(a, b) ==
    IF a = <<>> /\ b = <<>> THEN 0
    ELSE IF a = <<>> THEN -1
    ELSE IF b = <<>> THEN 1
    ELSE IF PrimaryWeight(Head(a)) < PrimaryWeight(Head(b)) THEN -1
    ELSE IF PrimaryWeight(Head(a)) > PrimaryWeight(Head(b)) THEN 1
    ELSE ComparePrimary(Tail(a), Tail(b))

RECURSIVE CompareCase(_, _)
CompareCase(a, b) ==
    IF a = <<>> \/ b = <<>> THEN 0
    ELSE IF IsUpperCase(Head(a)) = IsUpperCase(Head(b)) THEN CompareCase(Tail(a), Tail(b))
    ELSE IF IsUpperCase(Head(b)) THEN -1
    ELSE 1

localeCompare(a, b) ==
    IF ComparePrimary(a, b) # 0 THEN ComparePrimary(a, b) ELSE CompareCase(a, b)

\* The comparator of sortHypotheses: negative when x goes before y.
CompareHyps(x, y) ==
    IF y.depth # x.depth THEN y.depth - x.depth
    ELSE localeCompare(x.leafText, y.leafText)

\* A sort that puts an element in front of those it compares equal to: C18
\* tells the two apart.
RECURSIVE InsertHyp_Before(_, _)
InsertHyp_Before(done, x) ==
    IF done = <<>> THEN <<x>>
    ELSE IF CompareHyps(done[Len(done)], x) < 0 THEN Append(done, x)
    ELSE Append(InsertHyp_Before(SubSeq(done, 1, Len(done) - 1), x), done[Len(done)])

\* Array.prototype.sort is stable: an element goes behind every element that
\* does not compare greater than it.
RECURSIVE InsertHyp(_, _)
InsertHyp(done, x) ==
    IF done = <<>> THEN <<x>>
    ELSE IF CompareHyps(done[Len(done)], x) <= 0 THEN Append(done, x)
    ELSE Append(InsertHyp(SubSeq(done, 1, Len(done) - 1), x), done[Len(done)])

RECURSIVE SortFrom(_, _, _)
SortFrom(hyps, k, done) ==
    IF k > Len(hyps) THEN done ELSE SortFrom(hyps, k + 1, InsertHyp(done, hyps[k]))

sortHypotheses(hyps) == SortFrom(hyps, 1, <<>>)

\* leafById.get(id): the leaf object with that leafId, if there is one.
leafById(m, id) == SelectSeq(m.leaves, LAMBDA lf : lf.leafId = id)

\* candidates.map(id => leafById.get(id)).filter(Boolean)
RECURSIVE FoundLeaves(_, _)
FoundLeaves(m, ids) ==
    IF ids = <<>> THEN <<>>
    ELSE LET found == leafById(m, Head(ids))
         IN  (IF found = <<>> THEN <<>> ELSE <<found[Len(found)]>>) \o FoundLeaves(m, Tail(ids))

rankedHypotheses(m, answers) == sortHypotheses(FoundLeaves(m, candidates(m, answers)))

\* chooseOption without the refusal: C12 tells the two apart.
Chosen_Always(m, s, nodeId, optionId) ==
    [s EXCEPT !.errorMsg = "", !.answers = AnswerSet(s.answers, nodeId, optionId)]

\* chooseOption's state update, before the effect runs.
Chosen(m, s, nodeId, optionId) ==
    IF candidates(m, AnswerSet(s.answers, nodeId, optionId)) = <<>>
    THEN [s EXCEPT !.errorMsg = CONFLICT_MSG]
    ELSE [s EXCEPT !.errorMsg = "", !.answers = AnswerSet(s.answers, nodeId, optionId)]

(***************************************************************************)
(* The two command-line pipelines (main) as a state machine.               *)
(***************************************************************************)
VARIABLES
    g,        \* the Graph under construction by parse_mermaid, then frozen
    tool,     \* which script runs: "clickthrough", "hypothesis" or "html"
    pc,       \* position in main
    cycle,    \* Optional result of detect_cycle: <<>> before the call
    tree,     \* Optional result of build_tree
    model,    \* Optional result of make_model
    written,  \* the output HTML file has been written
    err,      \* what was reported on stderr before exit(1); "" if nothing
    ui,       \* React state of the generated page once it is open; <<>> before
    ret       \* outcome of a direct call of a compiler function; <<>> before

vars == <<g, tool, pc, cycle, tree, model, written, err, ui, ret>>

\* The largest number of edge lines of an input text: Spec reads structure
\* (three identifiers, unlabelled edges, declarations that repeat the
\* identifier's own text), SpecL reads labels (two identifiers, marked-up
\* node and edge labels).
MaxEdges == 4
MaxEdgesL == 2

NodesL == {"A", "C_x"}

\* Raw label texts of node declarations  Id["..."], per identifier.
OwnText == [nid \in Nodes |-> {fallback_label(nid)}]

NodeLabelsL ==
    {<<"Q", "1">>,
     <<"<img src='p.png'>">>,
     <<BOLD, "P", BOLD, "<br/>", "<img src='p.png'>", WS, "a">>}

RichText == [nid \in NodesL |-> NodeLabelsL]

\* Edge label groups of EDGE_RE: None, or the text between the bars.
NoEdgeLabels == {<<>>}

EdgeLabelsL ==
    {<<>>,
     <<<<>>>>,
     <<<<"<img src=\"e.png\">">>>>,
     <<<<QUOTE, "<h1>", "T", "</h1>", "<p>", "c", "</p>", "<img alt='x'>", QUOTE>>>>}

RECURSIVE SumLen(_, _)
SumLen(ch, S) ==
    IF S = {} THEN 0
    ELSE LET n == CHOOSE x \in S : TRUE
         IN  Len(ch[n]) + SumLen(ch, S \ {n})

\* The number of edge lines parsed so far.
EdgeCount(G) == SumLen(G.children, DOMAIN G.children)

Init ==
    /\ g = EmptyGraph
    /\ tool \in {"clickthrough", "hypothesis"}
    /\ pc = "parse"
    /\ cycle = <<>>
    /\ tree = <<>>
    /\ model = <<>>
    /\ written = FALSE
    /\ err = ""
    /\ ui = <<>>
    /\ ret = <<>>

\* parse_mermaid: a line matching NODE_RE.
ParseNodeLine(labels) ==
    /\ pc = "parse"
    /\ \E nid \in DOMAIN labels : \E raw \in labels[nid] : g' = add_node_label(g, nid, raw)
    /\ UNCHANGED <<tool, pc, cycle, tree, model, written, err, ui, ret>>

\* parse_mermaid: a line matching EDGE_RE.
ParseEdgeLine(ids, labels, max) ==
    /\ pc = "parse"
    /\ EdgeCount(g) < max
    /\ \E src \in ids, dst \in ids, lbl \in labels : g' = add_edge(g, src, dst, lbl)
    /\ UNCHANGED <<tool, pc, cycle, tree, model, written, err, ui, ret>>

\* parse_mermaid: a blank, comment, flowchart or unrecognised line.
SkipLine ==
    /\ pc = "parse"
    /\ UNCHANGED vars

\* A main without the `if not g.nodes_in_order` test: C16 tells the two apart.
EndOfInput_NoCheck ==
    /\ pc = "parse"
    /\ pc' = "validate"
    /\ UNCHANGED <<g, tool, cycle, tree, model, written, err, ui, ret>>

\* parse_mermaid returns; main checks g.nodes_in_order.
EndOfInput ==
    /\ pc = "parse"
    /\ IF g.nodes_in_order = <<>>
       THEN pc' = "failed" /\ err' = "no_nodes"
       ELSE pc' = "validate" /\ err' = err
    /\ UNCHANGED <<g, tool, cycle, tree, model, written, ui, ret>>

\* A cycle test that overlooks the two-element path of a self-loop: C2 tells
\* the two apart.
CycleFound_LongOnly(c) == c # <<>> /\ Len(c[1]) > 2

\* A cycle test that lets every graph through: C30 tells the two apart.
CycleFound_Never(c) == FALSE

\* `if cycle:` on the Optional list detect_cycle returned
CycleFound(c) == c # <<>> /\ c[1] # <<>>

\* cycle = detect_cycle(g); if cycle: report and sys.exit(1)
Validate ==
    /\ pc = "validate"
    /\ cycle' = detect_cycle(g)
    /\ IF CycleFound(cycle')
       THEN pc' = "failed" /\ err' = "cycle"
       ELSE pc' = "compile" /\ err' = err
    /\ UNCHANGED <<g, tool, tree, model, written, ui, ret>>

\* tree = build_tree(g) / model = make_model(g); html = make_html(...)
Compile ==
    /\ pc = "compile"
    /\ IF BuildRaises(g)
       THEN pc' = "failed" /\ err' = "no_root" /\ UNCHANGED <<tree, model>>
       ELSE /\ pc' = "write"
            /\ err' = err
            /\ IF tool = "clickthrough"
               THEN tree' = <<build_tree(g)>> /\ model' = model
               ELSE model' = <<make_model(g)>> /\ tree' = tree
    /\ UNCHANGED <<g, tool, cycle, written, ui, ret>>

\* out_path.write_text(html)
Write ==
    /\ pc = "write"
    /\ written' = TRUE
    /\ pc' = "done"
    /\ UNCHANGED <<g, tool, cycle, tree, model, err, ui, ret>>

\* out_path.write_text raises OSError, caught by `except Exception`.
WriteFails ==
    /\ pc = "write"
    /\ pc' = "failed"
    /\ err' = "io"
    /\ UNCHANGED <<g, tool, cycle, tree, model, written, ui, ret>>

\* What main does after parsing; the same in both specifications.
Pipeline ==
    \/ SkipLine
    \/ EndOfInput
    \/ Validate
    \/ Compile
    \/ Write
    \/ WriteFails

Next ==
    \/ ParseNodeLine(OwnText)
    \/ ParseEdgeLine(Nodes, NoEdgeLabels, MaxEdges)
    \/ Pipeline

Spec == Init /\ [][Next]_vars

NextL ==
    \/ ParseNodeLine(RichText)
    \/ ParseEdgeLine(NodesL, EdgeLabelsL, MaxEdgesL)
    \/ Pipeline

SpecL == Init /\ [][NextL]_vars

(***************************************************************************)
(* The hypothesis-filtering page in the browser, opened on the file that   *)
(* main wrote.  Every handler is followed by the render's useEffect.       *)
(***************************************************************************)
\* The input texts of SpecUI: edge lines over four identifiers, each from A
\* or B to a later one of A, B, C_x, D (so that every text compiles and has
\* at most two questions), and the declarations C_x["a"] and D["a"]; the
\* script run is mermaid_to_hypothesis_filtering.py.
MaxEdgesUI == 3
NodesUI == {"A", "B", "C_x", "D"}
EdgesUI ==
    {<<"A", "B">>, <<"A", "C_x">>, <<"A", "D">>, <<"B", "C_x">>, <<"B", "D">>}
UiText == [nid \in {"C_x", "D"} |-> {<<"a">>}]
InitUI == Init /\ tool = "hypothesis"

\* parse_mermaid: a line matching EDGE_RE, its identifiers one of `pairs`.
ParseEdgeLineIn(pairs, labels, max) ==
    /\ pc = "parse"
    /\ EdgeCount(g) < max
    /\ \E e \in pairs, lbl \in labels : g' = add_edge(g, e[1], e[2], lbl)
    /\ UNCHANGED <<tool, pc, cycle, tree, model, written, err, ui, ret>>

PageOpen == pc = "done" /\ tool = "hypothesis" /\ ui # <<>>

\* ReactDOM renders <App/>: useState initial values, then the effect.
LoadPage ==
    /\ pc = "done"
    /\ tool = "hypothesis"
    /\ ui = <<>>
    /\ ui' = <<AutoJump(model[1], InitialState(model[1]))>>
    /\ UNCHANGED <<g, tool, pc, cycle, tree, model, written, err, ret>>

\* onClick={() => setActiveQuestionId(q.nodeId)} of a menu entry
SelectQuestion(nodeId) ==
    /\ PageOpen
    /\ QuestionById(model[1], nodeId) # <<>>
    /\ ui' = <<AutoJump(model[1], [ui[1] EXCEPT !.activeQuestionId = nodeId])>>
    /\ UNCHANGED <<g, tool, pc, cycle, tree, model, written, err, ret>>

\* onClick={() => chooseOption(activeQuestion.nodeId, opt.optionId)}
chooseOption(nodeId, optionId) ==
    /\ PageOpen
    /\ nodeId = ui[1].activeQuestionId
    /\ \E q \in 1..Len(model[1].questions) :
           /\ model[1].questions[q].nodeId = nodeId
           /\ \E k \in 1..Len(model[1].questions[q].options) :
                  model[1].questions[q].options[k].optionId = optionId
    /\ ui' = <<AutoJump(model[1], Chosen(model[1], ui[1], nodeId, optionId))>>
    /\ UNCHANGED <<g, tool, pc, cycle, tree, model, written, err, ret>>

\* skipQuestion(activeQuestion.nodeId), or removeAnswer(q.nodeId) of an
\* answered question
skipQuestion(nodeId) ==
    /\ PageOpen
    /\ nodeId = ui[1].activeQuestionId \/ AnswerHas(ui[1].answers, nodeId)
    /\ QuestionById(model[1], nodeId) # <<>>
    /\ ui' = <<AutoJump(model[1], [ui[1] EXCEPT !.errorMsg = "",
                                               !.answers = AnswerDelete(@, nodeId)])>>
    /\ UNCHANGED <<g, tool, pc, cycle, tree, model, written, err, ret>>

resetAll ==
    /\ PageOpen
    /\ ui' = <<AutoJump(model[1], InitialState(model[1]))>>
    /\ UNCHANGED <<g, tool, pc, cycle, tree, model, written, err, ret>>

OptionIds == {nid \o TO \o c : nid \in NodesUI, c \in NodesUI}

NextUI ==
    \/ ParseNodeLine(UiText)
    \/ ParseEdgeLineIn(EdgesUI, NoEdgeLabels, MaxEdgesUI)
    \/ Pipeline
    \/ LoadPage
    \/ \E nodeId \in NodesUI : SelectQuestion(nodeId)
    \/ \E nodeId \in NodesUI, optionId \in OptionIds : chooseOption(nodeId, optionId)
    \/ \E nodeId \in NodesUI : skipQuestion(nodeId)
    \/ resetAll

SpecUI == InitUI /\ [][NextUI]_vars

(***************************************************************************)
(* The compilers called on their own, on any graph the parser can build,   *)
(* without main's checks in front of them.  ret holds what the call gave:  *)
(* the exception it raised, or the value it returned.                      *)
(***************************************************************************)
Raised(fn, what) == <<[fn |-> fn, raised |-> what, value |-> <<>>]>>
Returned(fn, v) == <<[fn |-> fn, raised |-> "", value |-> <<v>>]>>

\* build_tree(g).  build_node recurses along the child lists, so the call
\* is made on the graphs where that recursion ends: those without a cycle,
\* and those without a root, where build_node is never entered.
CallBuildTree ==
    /\ pc = "parse"
    /\ tool = "clickthrough"
    /\ BuildRaises(g) \/ ~CycleFound(detect_cycle(g))
    /\ ret' = IF BuildRaises(g) THEN Raised("build_tree", "no_root")
              ELSE Returned("build_tree", build_tree(g))
    /\ pc' = "called"
    /\ UNCHANGED <<g, tool, cycle, tree, model, written, err, ui>>

\* make_model(g), on any graph: its loops end on cyclic graphs too.
CallMakeModel ==
    /\ pc = "parse"
    /\ tool = "hypothesis"
    /\ ret' = IF BuildRaises(g) THEN Raised("make_model", "no_root")
              ELSE Returned("make_model", make_model(g))
    /\ pc' = "called"
    /\ UNCHANGED <<g, tool, cycle, tree, model, written, err, ui>>

\* compute_depths(g, top_nodes(g)), on any graph.
CallComputeDepths ==
    /\ pc = "parse"
    /\ tool = "hypothesis"
    /\ ret' = Returned("compute_depths", compute_depths(g, top_nodes(g)))
    /\ pc' = "called"
    /\ UNCHANGED <<g, tool, cycle, tree, model, written, err, ui>>

\* compute_leaf_sets(g, find_leaves(g)), on any graph.
CallComputeLeafSets ==
    /\ pc = "parse"
    /\ tool = "hypothesis"
    /\ ret' = Returned("compute_leaf_sets", compute_leaf_sets(g, find_leaves(g)))
    /\ pc' = "called"
    /\ UNCHANGED <<g, tool, cycle, tree, model, written, err, ui>>

NextCall ==
    \/ ParseNodeLine(OwnText)
    \/ ParseEdgeLine(Nodes, NoEdgeLabels, MaxEdges)
    \/ CallBuildTree
    \/ CallMakeModel
    \/ CallComputeDepths
    \/ CallComputeLeafSets

SpecCall == Init /\ [][NextCall]_vars

(***************************************************************************)
(* parse_edge_label called on its own.  A label is written as up to        *)
(* MaxBlocks pieces of markup, one after the other; the fallback text is   *)
(* what a caller may pass.  ret also keeps the two arguments of the call.  *)
(***************************************************************************)
MaxBlocks == 3

Blocks ==
    {<<"<h1>", "T", "</h1>">>,
     <<"<h1>", "</h1>">>,
     <<"<p>", WS, "c", "</p>">>,
     <<"<img src=\"e.png\">">>,
     <<"<img alt='x'>">>,
     <<"a">>,
     <<WS>>,
     <<"<br/>">>,
     <<BOLD, "b", BOLD>>}

FallbackTexts == {<<>>, <<"F">>, <<"<br/>">>}

InitLabel == Init /\ tool = "clickthrough"

CallParseEdgeLabel(edge_html, fallback_text) ==
    /\ pc = "parse"
    /\ ret' = <<[fn |-> "parse_edge_label", raised |-> "",
                 value |-> <<parse_edge_label(edge_html, fallback_text)>>,
                 args |-> <<edge_html, fallback_text>>]>>
    /\ pc' = "called"
    /\ UNCHANGED <<g, tool, cycle, tree, model, written, err, ui>>

NextLabel ==
    \E n \in 0..MaxBlocks : \E blocks \in [1..n -> Blocks] : \E fallback_text \in FallbackTexts :
        CallParseEdgeLabel(Flatten(blocks), fallback_text)

SpecLabel == InitLabel /\ [][NextLabel]_vars

(***************************************************************************)
(* The click-through page (ClassificationGuide) in the browser, opened on  *)
(* the file that mermaid_to_clickthrough.py wrote.  ui holds the React     *)
(* state: path, a list of steps, and result, null (<<>>) or the result     *)
(* shown.  Option indices count from 0, as in the page.                    *)
(***************************************************************************)
MaxEdgesCT == 3
MaxPath == 3
EdgesCT == {<<"A", "B">>, <<"A", "C_x">>, <<"C_x", "B">>}

InitCT == Init /\ tool = "clickthrough"

\* node?.options?.[i]: the option at index i, if there is one.
OptionAt(node, i) ==
    IF i + 1 \in 1..Len(node.options) THEN <<node.options[i + 1]>> ELSE <<>>

\* getCurrentNode: the loop over path from position k on, at node.
RECURSIVE WalkPath(_, _, _)
WalkPath(node, path, k) ==
    IF k > Len(path) THEN node
    ELSE IF OptionAt(node, path[k].optionIndex) = <<>> THEN node
    ELSE IF "next" \in DOMAIN OptionAt(node, path[k].optionIndex)[1]
    THEN WalkPath(OptionAt(node, path[k].optionIndex)[1].next, path, k + 1)
    ELSE node

getCurrentNode(TREE, path) == WalkPath(TREE, path, 1)

\* The object choose appends to path.
StepOf(idx, opt, node) ==
    [optionIndex |-> idx,
     optionLabel |-> Or(opt.label, <<"Option">>),
     nodeQuestionText |-> Or(node.questionText, <<"Step">>)]

\* opt.resultHtml || opt.resultText
ResultOf(opt) ==
    IF "resultHtml" \in DOMAIN opt /\ Truthy(opt.resultHtml) THEN opt.resultHtml
    ELSE IF "resultText" \in DOMAIN opt THEN opt.resultText
    ELSE <<>>

\* choose's state update for the option opt at index idx of node.
Choose(s, idx, opt, node) ==
    IF Truthy(ResultOf(opt))
    THEN [path |-> Append(s.path, StepOf(idx, opt, node)),
          result |-> <<[text |-> IF "resultText" \in DOMAIN opt THEN opt.resultText ELSE <<>>,
                         html |-> ResultOf(opt)]>>]
    ELSE IF "next" \in DOMAIN opt
    THEN [s EXCEPT !.path = Append(s.path, StepOf(idx, opt, node))]
    ELSE s

GuideOpen == pc = "done" /\ tool = "clickthrough" /\ ui # <<>>

\* root.render(<ClassificationGuide />)
LoadGuide ==
    /\ pc = "done"
    /\ tool = "clickthrough"
    /\ ui = <<>>
    /\ ui' = <<[path |-> <<>>, result |-> <<>>]>>
    /\ UNCHANGED <<g, tool, pc, cycle, tree, model, written, err, ret>>

\* onClick={() => choose(idx)} of an option button; the buttons are there
\* while no result is shown.
choose(idx) ==
    /\ GuideOpen
    /\ ui[1].result = <<>>
    /\ Len(ui[1].path) < MaxPath
    /\ OptionAt(getCurrentNode(tree[1], ui[1].path), idx) # <<>>
    /\ ui' = <<Choose(ui[1], idx, OptionAt(getCurrentNode(tree[1], ui[1].path), idx)[1],
                      getCurrentNode(tree[1], ui[1].path))>>
    /\ UNCHANGED <<g, tool, pc, cycle, tree, model, written, err, ret>>

\* onClick={() => goToStep(i)}: the Start button (-1) or a breadcrumb.
goToStep(stepIndex) ==
    /\ GuideOpen
    /\ stepIndex < Len(ui[1].path)
    /\ ui' = <<[path |-> IF stepIndex < 0 THEN <<>> ELSE SubSeq(ui[1].path, 1, stepIndex + 1),
                result |-> <<>>]>>
    /\ UNCHANGED <<g, tool, pc, cycle, tree, model, written, err, ret>>

\* onClick={backOne}; the button is disabled on a question with an empty path.
backOne ==
    /\ GuideOpen
    /\ ui[1].result # <<>> \/ ui[1].path # <<>>
    /\ ui' = <<IF ui[1].result # <<>> THEN [ui[1] EXCEPT !.result = <<>>]
               ELSE [ui[1] EXCEPT !.path = SubSeq(@, 1, Len(@) - 1)]>>
    /\ UNCHANGED <<g, tool, pc, cycle, tree, model, written, err, ret>>

\* onClick={reset}
reset ==
    /\ GuideOpen
    /\ ui' = <<[path |-> <<>>, result |-> <<>>]>>
    /\ UNCHANGED <<g, tool, pc, cycle, tree, model, written, err, ret>>

NextCT ==
    \/ ParseNodeLine(OwnText)
    \/ ParseEdgeLineIn(EdgesCT, NoEdgeLabels, MaxEdgesCT)
    \/ Pipeline
    \/ LoadGuide
    \/ \E idx \in 0..(MaxEdgesCT - 1) : choose(idx)
    \/ \E stepIndex \in -1..(MaxPath - 1) : goToStep(stepIndex)
    \/ backOne
    \/ reset

SpecCT == InitCT /\ [][NextCT]_vars

(***************************************************************************)
(* src/src/mermaid_to_html.py: parse_mermaid_flowchart and the script      *)
(* body.  Here g is the function's local state: nodes (a dict, as a        *)
(* function on the declared identifiers), edges (a list of pairs) and      *)
(* root_node (None is <<>>).  The recursion of the nested build_tree runs  *)
(* one call or return per step; ret holds its frames, innermost last:      *)
(* node_id, the index k of the child the for loop is at, and the options   *)
(* collected so far.  The interpreter ends a recursion deeper than its     *)
(* recursion limit with RecursionError.                                    *)
(***************************************************************************)
MaxEdgesH == 3
RecursionLimit == 4

EdgesH == {<<"A", "B">>, <<"B", "A">>, <<"B", "C_x">>, <<"A", "A">>}

\* Label texts of declarations  Id["..."], per identifier.
LabelsH(nid) ==
    IF nid = "A" THEN {<<"A">>, <<"A", "?">>}
    ELSE IF nid = "B" THEN {<<"B">>}
    ELSE {<<"Which", WS, "C", "?", WS, "x", "<br/>", "<img src='p.png'>">>}

\* re.split(r'<br/>', label_text)[0]
BeforeBr(s) ==
    IF IndexFrom(s, "<br/>", 1) = 0 THEN s ELSE SubSeq(s, 1, IndexFrom(s, "<br/>", 1) - 1)

\* re.sub(r'\*\*([^*]+)\*\*', r'\1', label): a pair of "**" with at least
\* one lexeme and no "**" between them loses its markers.
RECURSIVE CleanBold(_)
CleanBold(s) ==
    IF s = <<>> THEN <<>>
    ELSE IF Head(s) = BOLD /\ Len(s) >= 3 /\ s[2] # BOLD /\ IndexFrom(s, BOLD, 3) # 0
    THEN SubSeq(s, 2, IndexFrom(s, BOLD, 3) - 1)
         \o CleanBold(SubSeq(s, IndexFrom(s, BOLD, 3) + 1, Len(s)))
    ELSE <<Head(s)>> \o CleanBold(Tail(s))

\* re.search(r'(Which .+\?|.+\?)', label): from the start of the label to its
\* last "?", when something precedes that "?"; None (<<>>) otherwise.
QuestionOf(label) ==
    IF \E j \in 2..Len(label) : label[j] = "?"
    THEN <<SubSeq(label, 1, CHOOSE j \in 2..Len(label) :
                               label[j] = "?" /\ \A k \in (j + 1)..Len(label) : label[k] # "?")>>
    ELSE <<>>

\* re.sub(r'Which .+\? ', '', label): from the leftmost "Which " that is
\* followed, after at least one lexeme, by "? ", up to the last "? ".
SubWhich(s) ==
    LET starts == {i \in 1..Len(s) :
                      /\ s[i] = "Which"
                      /\ i + 1 <= Len(s) /\ s[i + 1] = WS
                      /\ \E j \in (i + 3)..(Len(s) - 1) : s[j] = "?" /\ s[j + 1] = WS}
        ends == {j \in 1..(Len(s) - 1) : s[j] = "?" /\ s[j + 1] = WS}
    IN  IF starts = {} THEN s
        ELSE SubSeq(s, 1, (CHOOSE i \in starts : \A k \in starts : i <= k) - 1)
             \o SubSeq(s, (CHOOSE j \in ends : \A k \in ends : k <= j) + 2, Len(s))

\* re.sub(r' - .+', '', label): from the leftmost " - " that something follows.
SubDash(s) ==
    LET starts == {i \in 1..(Len(s) - 3) : s[i] = WS /\ s[i + 1] = "-" /\ s[i + 2] = WS}
    IN  IF starts = {} THEN s
        ELSE SubSeq(s, 1, (CHOOSE i \in starts : \A k \in starts : i <= k) - 1)

\* re.search(r"<img src='([^']*)'", label_text), or "".
ImageUrl(label_text) ==
    IF IndexFrom(label_text, "<img src='p.png'>", 1) = 0 THEN <<>>
    ELSE <<"p", ".", "p", "n", "g">>

\* The dict stored for a declaration  node_id["label_text"].
NodeEntry(node_id, label_text) ==
    LET label == CleanBold(Strip(BeforeBr(label_text)))
        question == QuestionOf(label)
    IN  [id |-> node_id,
         label |-> Strip(IF question # <<>> THEN SubDash(SubWhich(label)) ELSE label),
         question |-> question,
         image |-> ImageUrl(label_text),
         children |-> <<>>]

\* str.lower()
Lower(s) ==
    [k \in 1..Len(s) |->
        IF s[k] = "A" THEN "a" ELSE IF s[k] = "B" THEN "b" ELSE IF s[k] = "C" THEN "c"
        ELSE IF s[k] = "Which" THEN "which" ELSE s[k]]

\* nodes[from_node]['children'] after the loop over edges.
RECURSIVE ChildrenFrom(_, _, _)
ChildrenFrom(nodes, edges, from_node) ==
    IF edges = <<>> THEN <<>>
    ELSE (IF Head(edges)[1] = from_node /\ Head(edges)[1] \in DOMAIN nodes
             /\ Head(edges)[2] \in DOMAIN nodes
          THEN <<Head(edges)[2]>> ELSE <<>>)
         \o ChildrenFrom(nodes, Tail(edges), from_node)

WithChildren(nodes, edges) ==
    [n \in DOMAIN nodes |-> [nodes[n] EXCEPT !.children = ChildrenFrom(nodes, edges, n)]]

\* What build_tree returns for node once options holds its children's trees.
NodeResult(node, options) ==
    IF node.children = <<>>
    THEN [label |-> node.label, image |-> node.image, result |-> node.label]
    ELSE IF node.question # <<>>
    THEN [next |-> [label |-> node.label, image |-> node.image,
                    question |-> node.question[1], options |-> options]]
    ELSE IF Len(options) = 1 /\ "next" \in DOMAIN options[1]
    THEN [label |-> node.label, image |-> node.image, next |-> options[1].next]
    ELSE [label |-> node.label, image |-> node.image,
          next |-> [question |-> <<"Which", WS>> \o Lower(node.label) \o <<WS, "type", "?">>,
                    options |-> options]]

\* What parse_mermaid_flowchart returns once build_tree(root_node) returned t.
RootResult(node, t) ==
    IF "next" \in DOMAIN t THEN t.next
    ELSE [question |-> IF node.question # <<>> THEN node.question[1]
                       ELSE <<"Which", WS, "option", WS, "best", WS, "fits", "?">>,
          options |-> <<>>]

InitHtml ==
    /\ g = [nodes |-> <<>>, edges |-> <<>>, root_node |-> <<>>]
    /\ tool = "html"
    /\ pc = "parse"
    /\ cycle = <<>>
    /\ tree = <<>>
    /\ model = <<>>
    /\ written = FALSE
    /\ err = ""
    /\ ui = <<>>
    /\ ret = <<>>

\* A line matching  (\w+)\["([^"]+)"\].
FlowNodeLine(node_id, label_text) ==
    /\ tool = "html"
    /\ pc = "parse"
    /\ g' = [g EXCEPT
               !.nodes = [n \in DOMAIN g.nodes \cup {node_id} |->
                             IF n = node_id THEN NodeEntry(node_id, label_text)
                             ELSE g.nodes[n]],
               !.root_node = IF g.root_node = <<>> THEN <<node_id>> ELSE g.root_node]
    /\ UNCHANGED <<tool, pc, cycle, tree, model, written, err, ui, ret>>

\* A line matching  (\w+)\s*-->\s*(\w+).
FlowEdgeLine(from_node, to_node) ==
    /\ tool = "html"
    /\ pc = "parse"
    /\ Len(g.edges) < MaxEdgesH
    /\ g' = [g EXCEPT !.edges = Append(g.edges, <<from_node, to_node>>)]
    /\ UNCHANGED <<tool, pc, cycle, tree, model, written, err, ui, ret>>

\* The input is exhausted: children are filled in from the edges, and
\* build_tree(root_node) is entered, or None is returned and the script
\* reports it.
FlowEndOfInput ==
    /\ tool = "html"
    /\ pc = "parse"
    /\ g' = [g EXCEPT !.nodes = WithChildren(g.nodes, g.edges)]
    /\ IF g.root_node = <<>>
       THEN /\ pc' = "failed"
            /\ err' = "Error: Could not parse mermaid diagram"
            /\ ret' = ret
       ELSE /\ pc' = "build"
            /\ err' = err
            /\ ret' = <<[node_id |-> g.root_node[1], k |-> 1, options |-> <<>>]>>
    /\ UNCHANGED <<tool, cycle, tree, model, written, ui>>

\* child_tree = build_tree(child_id), entered.
BuildTreeCall ==
    /\ pc = "build"
    /\ ret[Len(ret)].k <= Len(g.nodes[ret[Len(ret)].node_id].children)
    /\ Len(ret) < RecursionLimit
    /\ ret' = Append(ret, [node_id |-> g.nodes[ret[Len(ret)].node_id].children[ret[Len(ret)].k],
                            k |-> 1, options |-> <<>>])
    /\ UNCHANGED <<g, tool, pc, cycle, tree, model, written, err, ui>>

\* The same call with the recursion limit reached: RecursionError, which
\* nothing catches; the script ends with a traceback.
BuildTreeOverflow ==
    /\ pc = "build"
    /\ ret[Len(ret)].k <= Len(g.nodes[ret[Len(ret)].node_id].children)
    /\ Len(ret) >= RecursionLimit
    /\ ret' = <<>>
    /\ pc' = "failed"
    /\ err' = "RecursionError"
    /\ UNCHANGED <<g, tool, cycle, tree, model, written, ui>>

\* build_tree returns to build_tree: options.append(child_tree).
BuildTreeReturn ==
    /\ pc = "build"
    /\ Len(ret) > 1
    /\ ret[Len(ret)].k > Len(g.nodes[ret[Len(ret)].node_id].children)
    /\ ret' = [SubSeq(ret, 1, Len(ret) - 1) EXCEPT
                 ![Len(ret) - 1] =
                     [@ EXCEPT !.k = @ + 1,
                               !.options = Append(@, NodeResult(g.nodes[ret[Len(ret)].node_id],
                                                                ret[Len(ret)].options))]]
    /\ UNCHANGED <<g, tool, pc, cycle, tree, model, written, err, ui>>

\* build_tree(root_node) returns and parse_mermaid_flowchart returns the tree.
FlowReturn ==
    /\ pc = "build"
    /\ Len(ret) = 1
    /\ ret[1].k > Len(g.nodes[ret[1].node_id].children)
    /\ tree' = <<RootResult(g.nodes[ret[1].node_id],
                            NodeResult(g.nodes[ret[1].node_id], ret[1].options))>>
    /\ ret' = <<>>
    /\ pc' = "built"
    /\ UNCHANGED <<g, tool, cycle, model, written, err, ui>>

\* print(generate_html(tree))
FlowPrint ==
    /\ tool = "html"
    /\ pc = "built"
    /\ written' = TRUE
    /\ pc' = "done"
    /\ UNCHANGED <<g, tool, cycle, tree, model, err, ui, ret>>

NextHtml ==
    \/ \E node_id \in Nodes : \E label_text \in LabelsH(node_id) : FlowNodeLine(node_id, label_text)
    \/ \E e \in EdgesH : FlowEdgeLine(e[1], e[2])
    \/ FlowEndOfInput
    \/ BuildTreeCall
    \/ BuildTreeOverflow
    \/ BuildTreeReturn
    \/ FlowReturn
    \/ FlowPrint

SpecHtml == InitHtml /\ [][NextHtml]_vars

(***************************************************************************)
(* Graph theory of the parsed graph g, stated without the compilers'       *)
(* operators: what the properties below compare the code's results with.   *)
(***************************************************************************)
NodeSet == DOMAIN g.children
IsEdge(u, v) == InSeq(v, g.children[u])
Succs(S) == {v \in NodeSet : \E u \in S : IsEdge(u, v)}

RECURSIVE Grow(_, _)
Grow(R, n) == IF n = 0 THEN R ELSE Grow(R \cup Succs(R), n - 1)

\* The nodes reachable from u along at least one edge.
Desc(u) == Grow(Succs({u}), Cardinality(NodeSet))

\* Remove, as long as there is one, a node none of whose edges stays inside S.
RECURSIVE Peel(_)
Peel(S) ==
    IF \E n \in S : \A v \in S : ~IsEdge(n, v)
    THEN Peel(S \ {CHOOSE n \in S : \A v \in S : ~IsEdge(n, v)})
    ELSE S

\* g has a directed cycle: some non-empty set of nodes in which every node has
\* an edge into the set.
Cyclic == Peel(NodeSet) # {}
IsLeaf(n) == g.children[n] = <<>>
ReachableLeaves(n) == {l \in Desc(n) \cup {n} : IsLeaf(l)}
RootSeq == SelectSeq(g.nodes_in_order, LAMBDA n : \A u \in NodeSet : ~IsEdge(u, n))

RECURSIVE SumSeq(_)
SumSeq(s) == IF s = <<>> THEN 0 ELSE Head(s) + SumSeq(Tail(s))

RECURSIVE MaxSeq(_)
MaxSeq(s) ==
    IF s = <<>> THEN 0
    ELSE IF Head(s) > MaxSeq(Tail(s)) THEN Head(s) ELSE MaxSeq(Tail(s))

\* The number of edge paths from u to l (every child-list entry is an edge);
\* the empty path counts when u = l.  For acyclic g only.
RECURSIVE NPaths(_, _)
NPaths(u, l) ==
    IF u = l THEN 1
    ELSE SumSeq([k \in 1..Len(g.children[u]) |-> NPaths(g.children[u][k], l)])

\* The number of edges of the longest path that starts at u.  For acyclic g only.
RECURSIVE Height(_)
Height(u) ==
    IF IsLeaf(u) THEN 0
    ELSE 1 + MaxSeq([k \in 1..Len(g.children[u]) |-> Height(g.children[u][k])])

HasNext(o) == "next" \in DOMAIN o
HasResult(o) == "resultHtml" \in DOMAIN o /\ "resultText" \in DOMAIN o
HasAnyResult(o) == "resultHtml" \in DOMAIN o \/ "resultText" \in DOMAIN o

\* main has called detect_cycle
Validated == pc \in {"compile", "write", "done"} \/ (pc = "failed" /\ err # "no_nodes")

(***************************************************************************)
(* C1: detect_cycle returns None or a list of at least two identifiers     *)
(* whose first and last elements are equal, and it returns None exactly    *)
(* when the graph has no directed cycle (self-loops and repeated edges     *)
(* included).                                                              *)
(***************************************************************************)
C1_DetectCycleSound ==
    Validated =>
        /\ cycle = <<>> \/ (Len(cycle[1]) >= 2 /\ cycle[1][1] = cycle[1][Len(cycle[1])])
        /\ (cycle = <<>>) <=> ~Cyclic

C1_Witness == Validated /\ cycle # <<>> /\ Len(cycle[1]) = 4 /\ EdgeCount(g) = 4

(***************************************************************************)
(* C2: once main has validated a graph that contains a cycle, the run is   *)
(* in the failure exit with the cycle reported; no tree and no model has   *)
(* been built and the output file has not been written.  The graph never   *)
(* changes after parsing, so this holds for the rest of the run.           *)
(***************************************************************************)
C2_CycleGate ==
    (pc \notin {"parse", "validate"} /\ Cyclic) =>
        /\ pc = "failed"
        /\ err = "cycle"
        /\ CycleFound(cycle)
        /\ tree = <<>>
        /\ model = <<>>
        /\ ~written

C2_Witness == pc = "failed" /\ err = "cycle" /\ tool = "hypothesis" /\ Cyclic

(***************************************************************************)
(* C3: every option of the compiled tree carries exactly one of a nested   *)
(* continuation and a terminal result; an option built by build_node has   *)
(* the continuation exactly when its destination has a child.              *)
(***************************************************************************)
RECURSIVE OptionsWellFormed(_)
OptionsWellFormed(node) ==
    \A k \in 1..Len(node.options) :
        LET o == node.options[k]
        IN  /\ HasNext(o) # HasAnyResult(o)
            /\ HasAnyResult(o) => HasResult(o)
            /\ node.nodeId # SYNTHETIC_ID => (HasNext(o) <=> ~IsLeaf(o.nextNodeId))
            /\ HasNext(o) => OptionsWellFormed(o.next)

C3_OneOfNextOrResult == tree # <<>> => OptionsWellFormed(tree[1])

C3_Witness ==
    /\ tree # <<>>
    /\ tree[1].nodeId # SYNTHETIC_ID
    /\ Len(tree[1].options) = 2
    /\ HasResult(tree[1].options[1])
    /\ HasNext(tree[1].options[2])
    /\ HasResult(tree[1].options[2].next.options[1])

(***************************************************************************)
(* C4: every leaf of the graph, a leaf that is itself a root included, is  *)
(* the terminal result of at least one option of the compiled tree, and    *)
(* the number of options that carry it equals the number of edge paths     *)
(* from a root to it.                                                      *)
(***************************************************************************)
RECURSIVE ResultCount(_, _)
ResultCount(node, l) ==
    SumSeq([k \in 1..Len(node.options) |->
              IF HasNext(node.options[k]) THEN ResultCount(node.options[k].next, l)
              ELSE IF node.options[k].nextNodeId = l THEN 1 ELSE 0])

RootPaths(l) == SumSeq([k \in 1..Len(RootSeq) |-> NPaths(RootSeq[k], l)])

C4_EveryLeafIsAResult ==
    tree # <<>> =>
        \A l \in NodeSet :
            IsLeaf(l) => /\ ResultCount(tree[1], l) >= 1
                         /\ ResultCount(tree[1], l) = RootPaths(l)

(***************************************************************************)
(* C5: every walk from the compiled root ends at an option with a terminal *)
(* result after at most (longest root-to-leaf path, plus one under a       *)
(* synthetic start) choices; no reachable question has an empty option     *)
(* list.                                                                   *)
(***************************************************************************)
RECURSIVE NoDeadEnd(_)
NoDeadEnd(node) ==
    /\ node.options # <<>>
    /\ \A k \in 1..Len(node.options) :
           HasNext(node.options[k]) => NoDeadEnd(node.options[k].next)

\* The largest number of choices of a walk through the tree.
RECURSIVE Choices(_)
Choices(node) ==
    MaxSeq([k \in 1..Len(node.options) |->
              IF HasNext(node.options[k]) THEN 1 + Choices(node.options[k].next) ELSE 1])

LongestRootPath == MaxSeq([k \in 1..Len(RootSeq) |-> Height(RootSeq[k])])

C5_WalksEndAtResult ==
    tree # <<>> =>
        /\ NoDeadEnd(tree[1])
        /\ Choices(tree[1]) <=
               LongestRootPath + (IF tree[1].nodeId = SYNTHETIC_ID THEN 1 ELSE 0)

(***************************************************************************)
(* C6: with one in-degree-zero node build_tree returns the compiled node   *)
(* of that root; with k > 1 it returns the question "Where do you want to  *)
(* start?" with k options, one per root in first-seen order, each with     *)
(* nextNodeId the root and continuation build_node of the root.            *)
(***************************************************************************)
C6_RootsBecomeStart ==
    tree # <<>> =>
        IF Len(RootSeq) = 1
        THEN tree[1] = build_node(g, RootSeq[1])
        ELSE /\ tree[1].questionHtml = START_QUESTION
             /\ tree[1].questionText = START_QUESTION
             /\ Len(tree[1].options) = Len(RootSeq)
             /\ \A k \in 1..Len(RootSeq) :
                    /\ tree[1].options[k].nextNodeId = RootSeq[k]
                    /\ HasNext(tree[1].options[k])
                    /\ tree[1].options[k].next = build_node(g, RootSeq[k])

C6_Witness ==
    /\ tree # <<>>
    /\ Len(RootSeq) = 2
    /\ StrLess(RootSeq[2], RootSeq[1])
    /\ ~IsLeaf(RootSeq[1])
    /\ ~IsLeaf(RootSeq[2])

(***************************************************************************)
(* C7 (as amended): build_node(g, N) yields a node whose question is N's   *)
(* label and whose options match the entries of N's child list one to one  *)
(* and in order (duplicates included), each with nextNodeId that child;    *)
(* when no label is recorded for the pair (N, child) the option's plain    *)
(* label is the plain text of the child's label if that text is not empty, *)
(* and otherwise the child's identifier with underscores replaced by       *)
(* spaces.                                                                 *)
(***************************************************************************)
Unlabelled(n, c) == <<n, c>> \notin DOMAIN g.edge_label
PlainOf(c) == strip_html_for_plain(g.node_html[c])

RECURSIVE NodeMatches(_, _)
\* Expected(c) is the plain label an option to c must have on an unlabelled edge.
NodeMatches(node, expected) ==
    IF node.nodeId = SYNTHETIC_ID
    THEN \A k \in 1..Len(node.options) : NodeMatches(node.options[k].next, expected)
    ELSE /\ node.questionHtml = g.node_html[node.nodeId]
         /\ Len(node.options) = Len(g.children[node.nodeId])
         /\ \A k \in 1..Len(node.options) :
                LET o == node.options[k]
                    c == g.children[node.nodeId][k]
                IN  /\ o.nextNodeId = c
                    /\ Unlabelled(node.nodeId, c) => o.label = expected[c]
                    /\ HasNext(o) => NodeMatches(o.next, expected)

LeafRun == LeafSetRun(g, find_leaves(g))

LeafSetsRight(run, leaf_set) ==
    /\ run.passes <= Cardinality(NodeSet)
    /\ LeafPass(g, Len(g.nodes_in_order), [leaf_set |-> leaf_set, changed |-> FALSE])
           = [leaf_set |-> leaf_set, changed |-> FALSE]
    /\ DOMAIN leaf_set = NodeSet
    /\ \A n \in NodeSet :
           /\ IsLeaf(n) => leaf_set[n] = {n}
           /\ leaf_set[n] = ReachableLeaves(n)

C8_LeafSetsAreReachableLeaves ==
    model # <<>> => LeafSetsRight(LeafRun, compute_leaf_sets(g, find_leaves(g)))

C8_Witness ==
    /\ model # <<>>
    /\ Len(g.nodes_in_order) = 3
    /\ LeafRun.passes = 3

(***************************************************************************)
(* C9: every optionId in a question's option list is a key of              *)
(* optionToLeafIds and its value is a non-empty list.                      *)
(***************************************************************************)
C9_EveryOptionIndexed ==
    model # <<>> =>
        \A q \in 1..Len(model[1].questions) :
            \A k \in 1..Len(model[1].questions[q].options) :
                LET id == model[1].questions[q].options[k].optionId
                IN  /\ id \in DOMAIN model[1].optionToLeafIds
                    /\ model[1].optionToLeafIds[id] # <<>>

C9_Witness ==
    /\ model # <<>>
    /\ Len(model[1].questions) = 2
    /\ \E id \in DOMAIN model[1].optionToLeafIds : Len(model[1].optionToLeafIds[id]) = 1

(***************************************************************************)
(* C10: initialCandidates is the ascending, duplicate-free list of exactly *)
(* the leaves in the union of the leaf-sets of the in-degree-zero nodes;   *)
(* that union is never empty, so the all-leaves fallback is not what       *)
(* decides the value.                                                      *)
(***************************************************************************)
RootLeaves == UNION {ReachableLeaves(RootSeq[k]) : k \in 1..Len(RootSeq)}

Ascending(s) == \A k \in 1..(Len(s) - 1) : StrLess(s[k], s[k + 1])

CandidatesRight(cands, leaf_set, root_leaves) ==
    /\ Ascending(cands)
    /\ SeqSet(cands) = root_leaves
    /\ root_leaves # {}
    /\ UNION {leaf_set[RootSeq[k]] : k \in 1..Len(RootSeq)} = root_leaves

C10_InitialCandidates ==
    model # <<>> =>
        CandidatesRight(model[1].initialCandidates,
                        compute_leaf_sets(g, find_leaves(g)), RootLeaves)

C10_Witness ==
    /\ model # <<>>
    /\ Len(RootSeq) = 2
    /\ Len(model[1].initialCandidates) = 2
    /\ model[1].initialCandidates # find_leaves(g)

(***************************************************************************)
(* C11: for every option of the model, intersecting initialCandidates with *)
(* the option's entry of optionToLeafIds leaves at least one leaf; that    *)
(* is, the leaf-set of the option's destination shares a leaf with the     *)
(* union of the roots' leaf-sets.                                          *)
(***************************************************************************)
AllOptions(m) == Flatten([q \in 1..Len(m.questions) |-> m.questions[q].options])

C11_NoOptionEmptiesCandidates ==
    model # <<>> =>
        \A k \in 1..Len(AllOptions(model[1])) :
            LET o == AllOptions(model[1])[k]
            IN  /\ intersect(model[1].initialCandidates,
                             model[1].optionToLeafIds[o.optionId]) # <<>>
                /\ ReachableLeaves(o.dstNodeId) \cap RootLeaves # {}

C11_Witness ==
    /\ model # <<>>
    /\ Len(model[1].roots) = 2
    /\ \E k \in 1..Len(AllOptions(model[1])) :
           Len(intersect(model[1].initialCandidates,
                         model[1].optionToLeafIds[AllOptions(model[1])[k].optionId]))
               < Len(model[1].initialCandidates)

(***************************************************************************)
(* C12: while the hypothesis-filtering page is open, after any sequence of *)
(* chooseOption, skipQuestion/removeAnswer and resetAll, the set of leaves *)
(* that are initial candidates and lie in the leaf list of every answered  *)
(* option is never empty; a chooseOption whose answer (replacing an        *)
(* earlier answer to the same question) would empty it leaves the answers  *)
(* as they were and sets the error message.                                *)
(***************************************************************************)
Allowed(optionId) == SeqSet(model[1].optionToLeafIds[optionId])

\* The leaves left by a list of (nodeId, optionId) answers.
LeftBy(answers) ==
    {l \in SeqSet(model[1].initialCandidates) :
        \A k \in 1..Len(answers) : l \in Allowed(answers[k][2])}

\* The answers with the one of nodeId replaced by, or extended with, optionId.
Replaced(answers, nodeId, optionId) ==
    SelectSeq(answers, LAMBDA e : e[1] # nodeId) \o <<<<nodeId, optionId>>>>

\* What a chooseOption(nodeId, optionId) step must have done.
Settled(nodeId, optionId) ==
    IF LeftBy(Replaced(ui[1].answers, nodeId, optionId)) = {}
    THEN /\ ui'[1].answers = ui[1].answers
         /\ ui'[1].errorMsg = CONFLICT_MSG
    ELSE /\ <<nodeId, optionId>> \in SeqSet(ui'[1].answers)
         /\ Len(ui'[1].answers) = Len(Replaced(ui[1].answers, nodeId, optionId))
         /\ ui'[1].errorMsg = ""

\* The options the page offers: those of the active question.
ActiveOptions ==
    Flatten([q \in 1..Len(model[1].questions) |->
                IF model[1].questions[q].nodeId = ui[1].activeQuestionId
                THEN model[1].questions[q].options ELSE <<>>])

C12_CandidatesNeverEmpty ==
    /\ [](PageOpen => /\ LeftBy(ui[1].answers) # {}
                      /\ SeqSet(candidates(model[1], ui[1].answers)) = LeftBy(ui[1].answers))
    /\ [][PageOpen =>
              \A k \in 1..Len(ActiveOptions) :
                  \/ Settled(ui[1].activeQuestionId, ActiveOptions[k].optionId)
                  \/ ~chooseOption(ui[1].activeQuestionId, ActiveOptions[k].optionId)]_vars

\* A refused choice: an answer is kept and the error message is shown.
C12_Witness ==
    /\ PageOpen
    /\ ui[1].errorMsg = CONFLICT_MSG
    /\ Len(ui[1].answers) = 1
    /\ Cardinality(LeftBy(ui[1].answers)) = 1
    /\ Len(model[1].initialCandidates) = 2

(***************************************************************************)
(* C13: the questions of the model are exactly the nodes with a child, in  *)
(* first-seen order, each with its options in child-list order; the leaves *)
(* are exactly the nodes without a child, in first-seen order; the two     *)
(* lists together hold every node exactly once.                            *)
(***************************************************************************)
QuestionIds(m) == [k \in 1..Len(m.questions) |-> m.questions[k].nodeId]
LeafIds(m) == [k \in 1..Len(m.leaves) |-> m.leaves[k].leafId]
NoRepeat(s) == \A i, j \in 1..Len(s) : i # j => s[i] # s[j]

ListsRight(qs, ls) ==
    /\ qs = SelectSeq(g.nodes_in_order, LAMBDA n : ~IsLeaf(n))
    /\ ls = SelectSeq(g.nodes_in_order, LAMBDA n : IsLeaf(n))
    /\ NoRepeat(qs \o ls)
    /\ SeqSet(qs \o ls) = NodeSet

C13_QuestionsAndLeavesPartition ==
    model # <<>> =>
        /\ ListsRight(QuestionIds(model[1]), LeafIds(model[1]))
        /\ \A k \in 1..Len(model[1].questions) :
               [j \in 1..Len(model[1].questions[k].options) |->
                    model[1].questions[k].options[j].dstNodeId]
                   = g.children[model[1].questions[k].nodeId]

C13_Witness ==
    /\ model # <<>>
    /\ Len(model[1].questions) = 2
    /\ Len(model[1].leaves) = 1
    /\ IsLeaf(g.nodes_in_order[1])
    /\ Len(model[1].questions[2].options) = 3
    /\ model[1].questions[2].options[1].dstNodeId # model[1].questions[2].options[2].dstNodeId

(***************************************************************************)
(* C14: after any sequence of node and edge lines, nodes_in_order has no   *)
(* duplicates and its elements are exactly the keys of node_html, of       *)
(* children and of indegree; every child-list entry and both ends of every *)
(* edge_label key are among them; and labels come from declarations only:  *)
(* an edge line gives each node it creates the identifier with underscores *)
(* replaced by spaces as label and changes no existing label.              *)
(***************************************************************************)
GraphClosed(G) ==
    /\ NoRepeat(G.nodes_in_order)
    /\ DOMAIN G.node_html = SeqSet(G.nodes_in_order)
    /\ DOMAIN G.children = SeqSet(G.nodes_in_order)
    /\ DOMAIN G.indegree = SeqSet(G.nodes_in_order)
    /\ \A n \in DOMAIN G.children : SeqSet(G.children[n]) \subseteq SeqSet(G.nodes_in_order)
    /\ \A e \in DOMAIN G.edge_label : {e[1], e[2]} \subseteq SeqSet(G.nodes_in_order)

TotalChildren(G) == SumLen(G.children, DOMAIN G.children)

EdgeLineKeepsLabels ==
    TotalChildren(g') > TotalChildren(g) =>
        \A n \in DOMAIN g'.node_html :
            g'.node_html[n] = IF n \in DOMAIN g.node_html THEN g.node_html[n]
                              ELSE fallback_label(n)

\* A label other than the fallback appears, and a label changes, only by a
\* declaration of that very node.
LabelsFromDeclarations ==
    \A n \in DOMAIN g'.node_html :
        (g'.node_html[n] # (IF n \in DOMAIN g.node_html THEN g.node_html[n]
                           ELSE fallback_label(n)))
            => \E raw \in RichText[n] : g' = add_node_label(g, n, raw)

C14_NodesClosedUnderEdges ==
    [](GraphClosed(g)) /\ [][EdgeLineKeepsLabels /\ LabelsFromDeclarations]_vars

\* Two edge lines, one labelled, created both nodes; A was declared afterwards.
C14_Witness ==
    /\ g.nodes_in_order = <<"C_x", "A">>
    /\ g.children["C_x"] = <<"A", "A">>
    /\ DOMAIN g.edge_label = {<<"C_x", "A">>}
    /\ g.node_html["C_x"] = fallback_label("C_x")
    /\ g.node_html["A"] # fallback_label("A")

(***************************************************************************)
(* C15: a declaration of an identifier that is already in the graph        *)
(* leaves the child lists, the in-degrees, the edge labels, the first-seen *)
(* order and every other node's label as they were, and makes the declared *)
(* text (as converted by mmd_label_to_html) the node's label.              *)
(***************************************************************************)
Redeclared(nid, raw) ==
    (pc = "parse" /\ g' = add_node_label(g, nid, raw)) =>
        /\ g'.children = g.children
        /\ g'.indegree = g.indegree
        /\ g'.edge_label = g.edge_label
        /\ g'.nodes_in_order = g.nodes_in_order
        /\ \A n \in DOMAIN g.node_html \ {nid} : g'.node_html[n] = g.node_html[n]
        /\ DOMAIN g'.node_html = DOMAIN g.node_html
        /\ g'.node_html[nid] = mmd_label_to_html(raw)

C15_RedeclarationKeepsStructure ==
    [][\A nid \in DOMAIN g.node_html : \A raw \in RichText[nid] : Redeclared(nid, raw)]_vars

\* The edge line A --> C_x created both nodes; C_x was declared afterwards.
C15_Witness ==
    /\ g.nodes_in_order = <<"A", "C_x">>
    /\ g.children["A"] = <<"C_x">>
    /\ g.children["C_x"] = <<>>
    /\ g.indegree["C_x"] = 1
    /\ g.node_html["A"] = fallback_label("A")
    /\ g.node_html["C_x"] = <<"<strong>", "P", "</strong>", "<br/>", "<img src='p.png'>", WS, "a">>

(***************************************************************************)
(* C16: in both tools, when parsing ends with no node the run has failed   *)
(* with the no-nodes error and detect_cycle, the compiler and the file     *)
(* write have not run; the no-nodes error and the cycle error are          *)
(* different reports, each given for its own cause only.                   *)
(***************************************************************************)
C16_EmptyInputFailsFirst ==
    /\ (pc # "parse" /\ g.nodes_in_order = <<>>) =>
           /\ pc = "failed"
           /\ err = "no_nodes"
           /\ cycle = <<>>
           /\ tree = <<>>
           /\ model = <<>>
           /\ ~written
    /\ err = "no_nodes" => (pc = "failed" /\ g.nodes_in_order = <<>>)
    /\ err = "cycle" => (pc = "failed" /\ g.nodes_in_order # <<>> /\ CycleFound(cycle))

C16_Witness ==
    /\ tool = "hypothesis"
    /\ g.nodes_in_order = <<>>
    /\ pc = "failed"
    /\ err = "no_nodes"

(***************************************************************************)
(* C17: build_tree and make_model, called on a graph in which no node has  *)
(* in-degree zero, raise the no-root error and return nothing.             *)
(***************************************************************************)
NoRoot == \A n \in DOMAIN g.indegree : g.indegree[n] # 0

C17_NoRootRaises ==
    (pc = "called" /\ ret[1].fn \in {"build_tree", "make_model"} /\ NoRoot) =>
        /\ ret[1].raised = "no_root"
        /\ ret[1].value = <<>>

\* make_model was called on a graph with nodes, all of them on a cycle.
C17_Witness ==
    /\ pc = "called"
    /\ ret[1].fn = "make_model"
    /\ Len(g.nodes_in_order) = 3
    /\ NoRoot
    /\ ret[1].raised = "no_root"

(***************************************************************************)
(* C19: compute_depths, on every graph, gives each node reachable from a   *)
(* root the number of edges of a shortest path from a root to it (0 to the *)
(* roots themselves), also when longer paths reach the node, and gives 0   *)
(* to every node no root reaches; it ends on every graph, cyclic or not.   *)
(***************************************************************************)
Within(k) == Grow(SeqSet(RootSeq), k)
FromRoot(n) == n \in Within(Cardinality(NodeSet))
Distance(n) == CHOOSE k \in 0..Cardinality(NodeSet) :
                   n \in Within(k) /\ (k = 0 \/ n \notin Within(k - 1))

C19_DepthIsShortestDistance ==
    (pc = "called" /\ ret[1].fn = "compute_depths") =>
        /\ ret[1].raised = ""
        /\ DOMAIN ret[1].value[1] = NodeSet
        /\ \A n \in NodeSet :
               ret[1].value[1][n] = IF FromRoot(n) THEN Distance(n) ELSE 0

\* C_x is one edge from the root A and also two edges, through B; the walk
\* meets the longer path first.
C19_Witness ==
    /\ pc = "called"
    /\ ret[1].fn = "compute_depths"
    /\ g.nodes_in_order = <<"A", "C_x", "B">>
    /\ g.children["A"] = <<"C_x", "B">>
    /\ g.children["B"] = <<"C_x">>
    /\ g.children["C_x"] = <<>>
    /\ ret[1].value[1] = [n \in {"A", "B", "C_x"} |-> IF n = "A" THEN 0 ELSE 1]

(***************************************************************************)
(* C20: after any sequence of edge and node lines indegree[n] is the       *)
(* number of occurrences of n in all child lists, a repeated edge counted  *)
(* each time; and every edge line appends its destination at the end of    *)
(* its source's child list and changes no other child list, while a node   *)
(* line changes none, so that each list holds the destinations in the      *)
(* order of the lines.                                                     *)
(***************************************************************************)
RECURSIVE Occurrences(_, _)
Occurrences(n, s) ==
    IF s = <<>> THEN 0
    ELSE (IF Head(s) = n THEN 1 ELSE 0) + Occurrences(n, Tail(s))

RECURSIVE OccurrencesIn(_, _, _)
OccurrencesIn(n, children, keys) ==
    IF keys = {} THEN 0
    ELSE LET u == CHOOSE x \in keys : TRUE
         IN  Occurrences(n, children[u]) + OccurrencesIn(n, children, keys \ {u})

ChildrenBefore(u) == IF u \in DOMAIN g.children THEN g.children[u] ELSE <<>>

AppendsInOrder ==
    pc = "parse" =>
        \/ \A u \in DOMAIN g'.children : g'.children[u] = ChildrenBefore(u)
        \/ \E src \in DOMAIN g'.children, dst \in DOMAIN g'.children :
               /\ g'.children[src] = Append(ChildrenBefore(src), dst)
               /\ \A u \in DOMAIN g'.children \ {src} : g'.children[u] = ChildrenBefore(u)

C20_IndegreeCountsChildEntries ==
    /\ [](\A n \in DOMAIN g.indegree :
              g.indegree[n] = OccurrencesIn(n, g.children, DOMAIN g.children))
    /\ [][AppendsInOrder]_vars

\* A --> B twice with A --> C_x between them, and a self-loop on B.
C20_Witness ==
    /\ g.nodes_in_order = <<"A", "B", "C_x">>
    /\ g.children["A"] = <<"B", "C_x", "B">>
    /\ g.children["B"] = <<"B">>
    /\ g.indegree["B"] = 3
    /\ g.indegree["C_x"] = 1
    /\ g.indegree["A"] = 0

(***************************************************************************)
(* C18: the ranked hypotheses are the current candidates, each once,       *)
(* ordered by depth descending and, among equal depths, by plain label     *)
(* ascending in the order localeCompare gives (the locale's dictionary     *)
(* order: letters compare without regard to case, and case decides only    *)
(* between labels that are otherwise equal); candidates equal in both keys *)
(* keep the order they have among the candidates.                          *)
(***************************************************************************)
DictLess(a, b) == localeCompare(a, b) < 0

PositionIn(s, x) == CHOOSE k \in 1..Len(s) : s[k] = x

Ranked == rankedHypotheses(model[1], ui[1].answers)
Current == candidates(model[1], ui[1].answers)

RankedArePermutation ==
    /\ Len(Ranked) = Len(Current)
    /\ {Ranked[k].leafId : k \in 1..Len(Ranked)} = SeqSet(Current)

RankedByDepthThenInput ==
    \A i \in 1..Len(Ranked), j \in 1..Len(Ranked) :
        i < j =>
            /\ Ranked[i].depth >= Ranked[j].depth
            /\ (Ranked[i].depth = Ranked[j].depth /\ Ranked[i].leafText = Ranked[j].leafText)
                   => PositionIn(Current, Ranked[i].leafId) < PositionIn(Current, Ranked[j].leafId)

CodeUnit(c) ==
    IF c = WS THEN 32
    ELSE IF c = "A" THEN 65
    ELSE IF c = "B" THEN 66
    ELSE IF c = "C" THEN 67
    ELSE IF c = "D" THEN 68
    ELSE IF c = "P" THEN 80
    ELSE IF c = "a" THEN 97
    ELSE 120

RECURSIVE LexLess(_, _)
LexLess(a, b) ==
    IF b = <<>> THEN FALSE
    ELSE IF a = <<>> THEN TRUE
    ELSE IF CodeUnit(Head(a)) # CodeUnit(Head(b)) THEN CodeUnit(Head(a)) < CodeUnit(Head(b))
    ELSE LexLess(Tail(a), Tail(b))

SimpleCycle(p) ==
    /\ Len(p) >= 2
    /\ \A i \in 1..(Len(p) - 1) : p[i] \in NodeSet /\ IsEdge(p[i], p[i + 1])
    /\ p[1] = p[Len(p)]
    /\ \A i \in 1..(Len(p) - 1), j \in 1..(Len(p) - 1) : i # j => p[i] # p[j]

C29_ReportedPathIsACycle == (Validated /\ CycleFound(cycle)) => SimpleCycle(cycle[1])

\* The walk starts at A and finds the cycle B, C_x, B, which A is not on.
C29_Witness ==
    /\ Validated
    /\ g.nodes_in_order = <<"A", "B", "C_x">>
    /\ g.children["A"] = <<"B">>
    /\ cycle = << <<"B", "C_x", "B">> >>

(***************************************************************************)
(* C30: in both tools, when main reaches the compiler (the graph has a     *)
(* node and detect_cycle returned None) some node has in-degree zero, and  *)
(* the no-root error is never the outcome of a run.                        *)
(***************************************************************************)
C30_CompilerAlwaysHasARoot ==
    /\ pc \in {"compile", "write", "done"} =>
           /\ g.nodes_in_order # <<>>
           /\ ~CycleFound(cycle)
           /\ \E n \in DOMAIN g.indegree : g.indegree[n] = 0
    /\ err # "no_root"

\* The compiler is reached with a graph of four edges and a single root.
C30_Witness ==
    /\ pc = "compile"
    /\ tool = "hypothesis"
    /\ EdgeCount(g) = 4
    /\ Len(RootSeq) = 1

(***************************************************************************)
(* C27: in the model make_model returns no two options, of any questions   *)
(* and at any positions, have the same optionId, and optionToLeafIds has   *)
(* exactly one entry per option; this includes the options that a repeated *)
(* edge line creates.                                                      *)
(***************************************************************************)
\* The places <<question, position>> of the options; no question has more
\* options than there are edge lines.
OptionPlaces(m) ==
    {p \in (1..Len(m.questions)) \X (1..MaxEdges) : p[2] <= Len(m.questions[p[1]].options)}

OptionIdAt(m, p) == m.questions[p[1]].options[p[2]].optionId

C27_OptionIdsUnique ==
    model # <<>> =>
        /\ \A p \in OptionPlaces(model[1]), r \in OptionPlaces(model[1]) :
               p # r => OptionIdAt(model[1], p) # OptionIdAt(model[1], r)
        /\ Cardinality(DOMAIN model[1].optionToLeafIds) = Cardinality(OptionPlaces(model[1]))

\* The same for the graphs in which no edge line is repeated.
NoRepeatedEdge == \A n \in NodeSet : NoRepeat(g.children[n])

OptionIdsUniqueWithoutRepeats ==
    (model # <<>> /\ NoRepeatedEdge) =>
        /\ \A p \in OptionPlaces(model[1]), r \in OptionPlaces(model[1]) :
               p # r => OptionIdAt(model[1], p) # OptionIdAt(model[1], r)
        /\ Cardinality(DOMAIN model[1].optionToLeafIds) = Cardinality(OptionPlaces(model[1]))

(***************************************************************************)
(* C25: on every acyclic graph the map compute_leaf_sets returns equals,   *)
(* node by node, the map of a single propagation pass that visits the      *)
(* nodes in a reverse topological order (every node after all its          *)
(* children), giving a leaf itself and any other node the union of its     *)
(* children's sets.                                                        *)
(***************************************************************************)
ChildSet(n) == SeqSet(g.children[n])

Propagated(n, ls) ==
    [ls EXCEPT ![n] = IF IsLeaf(n) THEN {n} ELSE UNION {ls[c] : c \in ChildSet(n)}]

RECURSIVE OnePass(_, _)
RECURSIVE OnePassAt(_, _, _)
OnePass(visited, ls) ==
    IF visited = NodeSet THEN ls
    ELSE OnePassAt(visited, ls, CHOOSE n \in NodeSet \ visited : ChildSet(n) \subseteq visited)

OnePassAt(visited, ls, n) == OnePass(visited \cup {n}, Propagated(n, ls))

C25_LeafSetsEqualOnePass ==
    (pc = "called" /\ ret[1].fn = "compute_leaf_sets" /\ ~Cyclic) =>
        ret[1].value[1] = OnePass({}, [n \in NodeSet |-> {}])

\* A chain A, B, C_x whose nodes were first seen in the order C_x, B, A: the
\* reverse first-seen order visits every node before its child.
C25_Witness ==
    /\ pc = "called"
    /\ ret[1].fn = "compute_leaf_sets"
    /\ g.nodes_in_order = <<"C_x", "B", "A">>
    /\ g.children["A"] = <<"B">>
    /\ g.children["B"] = <<"C_x">>
    /\ g.children["C_x"] = <<>>
    /\ ret[1].value[1]["A"] = {"C_x"}

(***************************************************************************)
(* parse_edge_label: the call, its arguments and its result.               *)
(***************************************************************************)
LabelParsed == pc = "called" /\ ret[1].fn = "parse_edge_label"
EdgeHtml == ret[1].args[1]
FallbackText == ret[1].args[2]
Parts == ret[1].value[1]

\* The markup of the label once its image tags are removed.
Markup == strip_img_tags(mmd_label_to_html(EdgeHtml))

HasElement(h, open, close) ==
    \E i \in 1..Len(h), j \in 1..Len(h) : i < j /\ h[i] = open /\ h[j] = close

\* The first image tag of the label, if it has one.
FirstImage(h) ==
    IF \E i \in 1..Len(h) : h[i] \in ImgTags
    THEN <<h[CHOOSE i \in 1..Len(h) : h[i] \in ImgTags /\ \A k \in 1..(i - 1) : h[k] \notin ImgTags]>>
    ELSE <<>>

(***************************************************************************)
(* C21: when the markup left after image removal is non-empty and has no   *)
(* <h1> element, titleHtml is that whole markup and contextHtml is empty,  *)
(* with or without <p> elements in it; when it has an <h1> element,        *)
(* titleHtml is the inner content of the first one and contextHtml is the  *)
(* concatenation of the re-wrapped <p> elements.                           *)
(***************************************************************************)
C21_TitleAndContext ==
    (LabelParsed /\ Markup # <<>>) =>
        IF HasElement(Markup, "<h1>", "</h1>")
        THEN /\ Parts.titleHtml = Strip(H1Match(Markup).inner)
             /\ Parts.contextHtml = PJoin(Markup)
        ELSE /\ Parts.titleHtml = Markup
             /\ Parts.contextHtml = <<>>

\* The same with the context taken from the <p> elements in both cases.
TitleAndParagraphs ==
    (LabelParsed /\ Markup # <<>>) =>
        /\ Parts.contextHtml = PJoin(Markup)
        /\ Parts.titleHtml = IF HasElement(Markup, "<h1>", "</h1>")
                             THEN Strip(H1Match(Markup).inner) ELSE Markup

(***************************************************************************)
(* C22: when the markup is empty once the image tags are removed,          *)
(* titleHtml and plainLabel are the plain fallback text and contextHtml is *)
(* empty; edgeImageTag and edgeImageSrc are those of the first image tag   *)
(* of the label, and empty only when the label has no image tag (or, for   *)
(* the src, no src attribute).                                             *)
(***************************************************************************)
PlainFallback == Or(strip_html_for_plain(FallbackText), FallbackText)

C22_EmptyMarkupKeepsImage ==
    (LabelParsed /\ Markup = <<>>) =>
        /\ Parts.titleHtml = PlainFallback
        /\ Parts.plainLabel = PlainFallback
        /\ Parts.contextHtml = <<>>
        /\ Parts.edgeImageTag = FirstImage(EdgeHtml)
        /\ Parts.edgeImageSrc = extract_img_src(FirstImage(EdgeHtml))

\* The label is an image tag and nothing else.
C22_Witness ==
    /\ LabelParsed
    /\ EdgeHtml = <<"<img src=\"e.png\">">>
    /\ FallbackText = <<"F">>
    /\ Parts.titleHtml = <<"F">>
    /\ Parts.edgeImageTag = <<"<img src=\"e.png\">">>
    /\ Parts.edgeImageSrc = <<"e", ".", "p", "n", "g">>

\* C22 as the specification has it: no image in the result.
C22_AsStated ==
    (LabelParsed /\ Markup = <<>>) =>
        /\ Parts.titleHtml = PlainFallback
        /\ Parts.plainLabel = PlainFallback
        /\ Parts.contextHtml = <<>>
        /\ Parts.edgeImageTag = <<>>
        /\ Parts.edgeImageSrc = <<>>

(***************************************************************************)
(* C23: plainLabel is the plain text of the title if that is non-empty,    *)
(* else the plain text of the whole image-stripped markup if that is       *)
(* non-empty, else the fallback text; it is empty only if the fallback     *)
(* text is empty.                                                          *)
(***************************************************************************)
C23_PlainLabelFallsBack ==
    LabelParsed =>
        /\ Parts.plainLabel =
               IF strip_html_for_plain(Parts.titleHtml) # <<>>
               THEN strip_html_for_plain(Parts.titleHtml)
               ELSE IF strip_html_for_plain(Markup) # <<>>
               THEN strip_html_for_plain(Markup)
               ELSE FallbackText
        /\ Parts.plainLabel = <<>> => FallbackText = <<>>

\* An empty heading before a paragraph: the title has no text, the markup has.
C23_Witness ==
    /\ LabelParsed
    /\ EdgeHtml = <<"<h1>", "</h1>", "<p>", WS, "c", "</p>">>
    /\ FallbackText = <<"F">>
    /\ Parts.titleHtml = <<>>
    /\ Parts.plainLabel = <<"c">>

(***************************************************************************)
(* C24: for every option built from an edge (N, C): when the label of the  *)
(* edge has an image tag, imageTag is that tag and imageSrc is its src     *)
(* (empty when the tag has none), and nothing of C's label is used; only   *)
(* when the edge label has no image tag are they the first image tag of    *)
(* C's label and its src.  In the hypothesis model, which has no imageTag, *)
(* the same holds of imageSrc.                                             *)
(***************************************************************************)
EdgeImage(n, c) == FirstImage(Get(g.edge_label, <<n, c>>, <<>>))
NodeImage(c) == FirstImage(g.node_html[c])

ImageTagFor(n, c) == IF EdgeImage(n, c) # <<>> THEN EdgeImage(n, c) ELSE NodeImage(c)
ImageSrcFor(n, c) == extract_img_src(ImageTagFor(n, c))

RECURSIVE ImagesFromOneLabel(_)
ImagesFromOneLabel(node) ==
    IF node.nodeId = SYNTHETIC_ID
    THEN \A k \in 1..Len(node.options) : ImagesFromOneLabel(node.options[k].next)
    ELSE \A k \in 1..Len(node.options) :
             /\ node.options[k].imageTag = ImageTagFor(node.nodeId, node.options[k].nextNodeId)
             /\ node.options[k].imageSrc = ImageSrcFor(node.nodeId, node.options[k].nextNodeId)
             /\ HasNext(node.options[k]) => ImagesFromOneLabel(node.options[k].next)

C24_EdgeImageWins ==
    /\ tree # <<>> => ImagesFromOneLabel(tree[1])
    /\ model # <<>> =>
           \A q \in 1..Len(model[1].questions) :
               \A k \in 1..Len(model[1].questions[q].options) :
                   model[1].questions[q].options[k].imageSrc =
                       ImageSrcFor(model[1].questions[q].nodeId,
                                   model[1].questions[q].options[k].dstNodeId)

\* What holds instead: the tag by precedence, and the src of the edge image
\* or, when that is empty, the src of C's image.
SrcOr(n, c) == Or(extract_img_src(EdgeImage(n, c)), extract_img_src(NodeImage(c)))

RECURSIVE ImagesByField(_)
ImagesByField(node) ==
    IF node.nodeId = SYNTHETIC_ID
    THEN \A k \in 1..Len(node.options) : ImagesByField(node.options[k].next)
    ELSE \A k \in 1..Len(node.options) :
             /\ node.options[k].imageTag = ImageTagFor(node.nodeId, node.options[k].nextNodeId)
             /\ node.options[k].imageSrc = SrcOr(node.nodeId, node.options[k].nextNodeId)
             /\ HasNext(node.options[k]) => ImagesByField(node.options[k].next)

EdgeImageWinsByField ==
    /\ tree # <<>> => ImagesByField(tree[1])
    /\ model # <<>> =>
           \A q \in 1..Len(model[1].questions) :
               \A k \in 1..Len(model[1].questions[q].options) :
                   model[1].questions[q].options[k].imageSrc =
                       SrcOr(model[1].questions[q].nodeId,
                             model[1].questions[q].options[k].dstNodeId)

(***************************************************************************)
(* C28: in the click-through page, in every state in which a question is   *)
(* displayed, however it was reached by choose, backOne, goToStep and      *)
(* reset, choosing an option that has a nested continuation makes that     *)
(* continuation the displayed question; so also after going back from a    *)
(* displayed result.                                                       *)
(***************************************************************************)
Displayed == getCurrentNode(tree[1], ui[1].path)
DisplayedOption(idx) == OptionAt(Displayed, idx)[1]

ChoosingContinues(idx) ==
    (GuideOpen /\ ui[1].result = <<>> /\ OptionAt(Displayed, idx) # <<>>
        /\ HasNext(DisplayedOption(idx)) /\ choose(idx))
    => (ui'[1].result = <<>>
        /\ getCurrentNode(tree[1], ui'[1].path) = DisplayedOption(idx).next)

C28_ChoiceShowsContinuation ==
    [][\A idx \in 0..(MaxEdgesCT - 1) : ChoosingContinues(idx)]_vars

\* Every step of the path is a choice with a continuation, as it is until a
\* result has been shown and left by Back or by its own breadcrumb.
RECURSIVE AllContinue(_, _, _)
AllContinue(node, path, k) ==
    IF k > Len(path) THEN TRUE
    ELSE /\ OptionAt(node, path[k].optionIndex) # <<>>
         /\ HasNext(OptionAt(node, path[k].optionIndex)[1])
         /\ AllContinue(OptionAt(node, path[k].optionIndex)[1].next, path, k + 1)

ChoiceShowsContinuationOnCleanPath ==
    [][(GuideOpen /\ AllContinue(tree[1], ui[1].path, 1)) =>
           \A idx \in 0..(MaxEdgesCT - 1) : ChoosingContinues(idx)]_vars

(***************************************************************************)
(* C26: the recursive tree construction of                                 *)
(* mermaid_to_html.parse_mermaid_flowchart ends with a return for every    *)
(* input text: the recursion is never deeper than the number of declared   *)
(* nodes, and it never ends with RecursionError.                           *)
(***************************************************************************)
C26_TreeConstructionReturns ==
    tool = "html" =>
        /\ err # "RecursionError"
        /\ pc = "build" => Len(ret) <= Cardinality(DOMAIN g.nodes)

\* v is in the children list of u.
FlowChild(u, v) == \E k \in 1..Len(g.nodes[u].children) : g.nodes[u].children[k] = v

RECURSIVE FlowReach(_, _, _)
FlowReach(u, v, n) ==
    IF n = 0 THEN FALSE
    ELSE FlowChild(u, v) \/ \E w \in DOMAIN g.nodes : FlowChild(u, w) /\ FlowReach(w, v, n - 1)

FlowAcyclic == \A u \in DOMAIN g.nodes : ~FlowReach(u, u, Cardinality(DOMAIN g.nodes))

\* The recursion is bounded when the declared graph is acyclic; the function
\* does not check that it is.
TreeConstructionReturnsIfAcyclic ==
    (tool = "html" /\ pc \in {"build", "built", "done", "failed"} /\ FlowAcyclic) =>
        /\ err # "RecursionError"
        /\ pc = "build" => Len(ret) <= Cardinality(DOMAIN g.nodes)

====
